---- MODULE Spec2Model ----
(***************************************************************************)
(* Model of the persons single-page application:                           *)
(*   - the generic Form component (src/src/components/Form.tsx),           *)
(*   - the HTTP request wrapper apiClient with its retry policy.           *)
(* Text values are tuples of one-character strings, so that trim() and     *)
(* parseInt() are computed character by character.  Messages that the code *)
(* only stores and compares are TLA+ strings.                              *)
(***************************************************************************)
EXTENDS Integers, Sequences, FiniteSets, TLC

VARIABLES
    \* ---- Form component ----
    fields,          \* the fields prop: a sequence of field descriptors
    formData,        \* useState formData: field name -> entered text
    errors,          \* useState errors:   field name -> message
    readers,         \* FileReaders whose onload has not fired yet
    submitOutcome,   \* what the last event was: "none", "invoked", "blocked"
    onSubmitArg,     \* argument of the onSubmit call made by the last event
    entered,         \* field name -> what the user entered or picked last
    rejectionBeforeSubmit, \* the last event was a submit begun with a file rejection shown
    \* ---- HTTP request wrapper ----
    navigatorOnLine, \* navigator.onLine, owned by the browser
    networkStatus,   \* the module-level networkStatus object
    eventQueue,      \* online/offline events queued and not yet dispatched
    pc,              \* where the apiClient call is: idle, fetching, delaying, done
    options,         \* the options argument of the call
    transport,       \* the simulated transport: its answer to each fetch
    attempt,         \* the attempt parameter of retryRequest
    fetchCount,      \* fetch calls issued by the call
    delays,          \* the delays the call has waited, in order
    callResult,      \* how the call settled
    offlineAtCatch,  \* some catch of the call ran while navigator.onLine was false
    request,         \* the init object of the fetch issued last
    localStorage,    \* window.localStorage: key -> string
    offlineFetches,  \* numbers of the fetches issued while networkStatus.isOnline was false
    \* ---- parseResponse on its own ----
    parseInput,      \* a Response
    parseOutput,     \* what parseResponse did with it
    \* ---- Auth context and auth API client ----
    user,            \* useState user
    isLoading,       \* useState isLoading
    authError,       \* useState error
    apiToken,        \* ApiClient.token
    authPc,          \* the auth operation in flight, or "idle"
    authReturn,      \* the operation the last step completed, with its result
    authHeaders,     \* headers of the request makeRequest issued last
    \* ---- calculateRetryDelay on its own ----
    calcConfig,      \* a RetryConfig
    calcDelays,      \* calculateRetryDelay(k, calcConfig) for k = 1, 2, ...
    \* ---- AppContent ----
    currentScreen,   \* useState currentScreen
    people,          \* useState people: the ids of the persons listed
    \* ---- ShowInfo, EnterInfo and the people service ----
    serverPeople,    \* ids of the persons the backend holds
    fetches,         \* fetchPeople calls that have not finished
    showIsLoading,   \* useState isLoading of ShowInfo
    createCall,      \* the create-person call of EnterInfo
    lost,            \* appended persons a fetch begun before the append removed
    \* ---- createPersonWithPhoto of the people service ----
    photoFile,       \* the photoFile argument, Null when none is given
    upPc,            \* where the call is: idle, compressing, uploading, creating, done
    upLog,           \* the requests issued and settled by the call, in order
    upResult,        \* how the call settled
    \* ---- the EnterInfo screen with auto-save ----
    entryMounted,    \* the screen is rendered
    entryData,       \* its formData state
    fieldErrors,     \* its fieldErrors state
    isFormValid,     \* its isFormValid state
    entryIsLoading,  \* its isLoading state
    showSubmissionConfirmation,  \* the "submit?" dialog is open
    showResetConfirmation,       \* the "reset?" dialog is open
    autoSaveTimer,   \* the pending debounced save: Null or Some(data)
    resetPromptTimer,  \* the 2 s timer that opens the reset dialog is pending
    autoSave,        \* what localStorage holds under 'enterInfo_autoSave'
    clock,           \* the current time, in milliseconds
    entryCall,       \* the createPersonWithPhoto call in flight, if any
    mountLog,        \* what the mount that has just happened found in storage
    discarded        \* the values discarded last, Null once a field is edited

formVars == <<fields, formData, errors, readers, submitOutcome, onSubmitArg,
              entered, rejectionBeforeSubmit>>

apiVars == <<navigatorOnLine, networkStatus, eventQueue, pc, options, transport,
             attempt, fetchCount, delays, callResult, offlineAtCatch, request,
             localStorage, offlineFetches>>

calcVars == <<calcConfig, calcDelays>>

parseVars == <<parseInput, parseOutput>>

authVars == <<user, isLoading, authError, apiToken, authPc, authReturn,
              authHeaders>>

appVars == <<currentScreen, people>>

peopleVars == <<serverPeople, fetches, showIsLoading, createCall, lost>>

\* the screens and services around the form and the two clients
uploadVars == <<photoFile, upPc, upLog, upResult>>

entryVars == <<entryMounted, entryData, fieldErrors, isFormValid, entryIsLoading,
               showSubmissionConfirmation, showResetConfirmation, autoSaveTimer,
               resetPromptTimer, autoSave, clock, entryCall, mountLog, discarded>>

moreVars == <<appVars, peopleVars, uploadVars, entryVars>>

vars == <<formVars, apiVars, calcVars, parseVars, authVars, moreVars>>

\* what the steps of one component leave alone
notForm == <<apiVars, calcVars, parseVars, authVars, moreVars>>
notApi == <<formVars, calcVars, parseVars, authVars, moreVars>>
notCalc == <<formVars, apiVars, parseVars, authVars, moreVars>>
notParse == <<formVars, apiVars, calcVars, authVars, moreVars>>
notAuth == <<formVars, apiVars, calcVars, parseVars, moreVars>>
notAuthNorApp == <<formVars, apiVars, calcVars, parseVars, peopleVars, uploadVars,
                   entryVars>>
notPeople == <<formVars, apiVars, calcVars, parseVars, authVars, uploadVars,
               entryVars>>
notUpload == <<formVars, apiVars, calcVars, parseVars, authVars, appVars, peopleVars,
               entryVars>>
notEntry == <<formVars, apiVars, calcVars, parseVars, authVars, appVars, peopleVars,
              uploadVars>>

(***************************************************************************)
(* Bounds                                                                  *)
(***************************************************************************)
MaxReaders == 2         \* file reads that may be in flight at once
MaxFetches == 2         \* fetchPeople calls that may be in flight at once
MaxCreates == 2         \* persons created in one run
MaxPendingEvents == 1   \* online/offline events queued and not yet dispatched
MaxCalcAttempt == 6     \* attempts calculateRetryDelay is evaluated for
MaxClock == 86400000    \* the clock stops after one day (milliseconds)

(***************************************************************************)
(* Strings as character tuples                                             *)
(***************************************************************************)
Digits == <<"0", "1", "2", "3", "4", "5", "6", "7", "8", "9">>

IsDigit(c) == \E i \in 1..10 : Digits[i] = c

DigitVal(c) == (CHOOSE i \in 1..10 : Digits[i] = c) - 1

IsWhitespace(c) == c = " "

RECURSIVE TrimStart(_)
TrimStart(s) ==
    IF s # <<>> /\ IsWhitespace(Head(s)) THEN TrimStart(Tail(s)) ELSE s

RECURSIVE TrimEnd(_)
TrimEnd(s) ==
    IF s # <<>> /\ IsWhitespace(s[Len(s)])
    THEN TrimEnd(SubSeq(s, 1, Len(s) - 1))
    ELSE s

\* String.prototype.trim
Trim(s) == TrimEnd(TrimStart(s))

\* the longest prefix of s made of decimal digits
RECURSIVE DigitPrefix(_)
DigitPrefix(s) ==
    IF s # <<>> /\ IsDigit(Head(s))
    THEN <<Head(s)>> \o DigitPrefix(Tail(s))
    ELSE <<>>

RECURSIVE DigitsValue(_, _)
DigitsValue(s, acc) ==
    IF s = <<>> THEN acc ELSE DigitsValue(Tail(s), acc * 10 + DigitVal(Head(s)))

NaN == [nan |-> TRUE]

\* parseInt(value) with no radix: leading whitespace is skipped, one sign is
\* accepted, then the longest run of decimal digits is read and whatever
\* follows it is ignored; no digit at all gives NaN.  (The "0x" prefix is
\* not modelled: the alphabet of the inputs has no "x".)
parseInt(s) ==
    LET t    == TrimStart(s)
        neg  == t # <<>> /\ Head(t) = "-"
        body == IF t # <<>> /\ Head(t) \in {"-", "+"} THEN Tail(t) ELSE t
        ds   == DigitPrefix(body)
    IN  IF ds = <<>> THEN NaN
        ELSE [nan |-> FALSE,
              val |-> IF neg THEN 0 - DigitsValue(ds, 0) ELSE DigitsValue(ds, 0)]

isNaN(n) == n.nan

(***************************************************************************)
(* Records with optional properties                                        *)
(***************************************************************************)
Has(r, k) == k \in DOMAIN r

\* r[k] || dflt
Get(r, k, dflt) == IF Has(r, k) THEN r[k] ELSE dflt

\* { ...a, ...b }
Spread(a, b) == [k \in DOMAIN a \cup DOMAIN b |-> IF k \in DOMAIN b THEN b[k] ELSE a[k]]

EmptyRecord == [k \in {} |-> <<>>]

(***************************************************************************)
(* Field descriptors handed to the Form component                          *)
(***************************************************************************)
\* Screens/enterInfo.tsx formFields (address and phone are further required
\* text inputs like name)
enterInfoFields == <<
    [name |-> "name", label |-> "Name", type |-> "text", required |-> TRUE],
    [name |-> "age", label |-> "Age", type |-> "number", required |-> TRUE,
     min |-> 1, max |-> 120],
    [name |-> "photo", label |-> "Photo", type |-> "file", required |-> FALSE,
     accept |-> "image/*"] >>

\* Screens/register.tsx registerFields (username and email are further
\* required text inputs like password)
registerFields == <<
    [name |-> "password", label |-> "Password", type |-> "password",
     required |-> TRUE, min |-> 8, max |-> 50,
     customValidationMessage |-> "Password must be 8-50 characters long"],
    [name |-> "confirmPassword", label |-> "Confirm Password",
     type |-> "password", required |-> TRUE, needsConfirmation |-> TRUE,
     confirmAgainst |-> "password",
     customValidationMessage |-> "Passwords must match"],
    [name |-> "photo", label |-> "Profile Photo", type |-> "file",
     required |-> FALSE, accept |-> "image/*"] >>

\* a form whose number and confirmation fields are optional and carry no
\* custom message: the descriptor properties the two forms above leave out
optionalFields == <<
    [name |-> "age", label |-> "Age", type |-> "number", min |-> 1, max |-> 120],
    [name |-> "password", label |-> "Password", type |-> "password"],
    [name |-> "confirmPassword", label |-> "Confirm Password",
     type |-> "password", needsConfirmation |-> TRUE,
     confirmAgainst |-> "password"] >>

FieldLists == {enterInfoFields, registerFields, optionalFields}

FieldNames(fs) == {fs[i].name : i \in 1..Len(fs)}

\* what a user may type into an input of the given type
TextInputs == {<<>>, <<" ">>, <<"a">>}

NumberInputs == {<<>>, <<" ">>, <<"0">>, <<"5">>, <<"1", "2", "0">>,
                 <<"1", "2", "1">>, <<"-", "5">>, <<"a">>,
                 <<"1", "2", "a">>, <<"1", "2", "1", "a">>}

PasswordInputs == {<<>>, <<" ">>, <<"p">>, <<"q">>}

InputsFor(field) ==
    CASE field.type = "number"   -> NumberInputs
      [] field.type = "password" -> PasswordInputs
      [] OTHER                   -> TextInputs

\* files the user may pick: type is the MIME type split at the slash
Files == {[major |-> "image", sub |-> "png", content |-> "A"],
          [major |-> "image", sub |-> "jpeg", content |-> "B"],
          [major |-> "application", sub |-> "pdf", content |-> "C"]}

\* file.type.startsWith('image/')
IsImage(file) == file.major = "image"

\* FileReader.readAsDataURL: data:<type>;base64,<encoded content>
readAsDataURL(file) ==
    <<"data:", file.major, "/", file.sub, ";base64,", file.content>>

(***************************************************************************)
(* Form: validateForm                                                      *)
(***************************************************************************)
RequiredMessage(field) == field.label \o " is required"
NotANumberMessage(field) == field.label \o " must be a valid number"
AtLeastMessage(field) == field.label \o " must be at least " \o ToString(field.min)
AtMostMessage(field) == field.label \o " must be at most " \o ToString(field.max)
ConfirmMessage(field) == Get(field, "customValidationMessage", "Passwords must match")
NotAnImageMessage == "Please select a valid image file"

\* the error one field contributes, as the three checks of the forEach body
\* leave it: each later check overwrites newErrors[field.name]
RequiredCheckNoTrim(field, value) ==
    IF Get(field, "required", FALSE) /\ value = <<>>
    THEN <<RequiredMessage(field)>> ELSE <<>>

RequiredCheck(field, value) ==
    IF Get(field, "required", FALSE) /\ Trim(value) = <<>>
    THEN <<RequiredMessage(field)>> ELSE <<>>

NumberCheck(field, value) ==
    IF field.type = "number" /\ value # <<>>
    THEN LET numValue == parseInt(value)
         IN  IF isNaN(numValue) THEN <<NotANumberMessage(field)>>
             ELSE IF Has(field, "min") /\ numValue.val < field.min
                  THEN <<AtLeastMessage(field)>>
             ELSE IF Has(field, "max") /\ numValue.val > field.max
                  THEN <<AtMostMessage(field)>>
             ELSE <<>>
    ELSE <<>>

ConfirmCheckSkipsEmpty(field, value, data) ==
    IF Get(field, "needsConfirmation", FALSE) /\ Has(field, "confirmAgainst")
    THEN LET confirmValue == Get(data, field.confirmAgainst, <<>>)
         IN  IF value # <<>> /\ value # confirmValue
             THEN <<ConfirmMessage(field)>> ELSE <<>>
    ELSE <<>>

ConfirmCheck(field, value, data) ==
    IF Get(field, "needsConfirmation", FALSE) /\ Has(field, "confirmAgainst")
    THEN LET confirmValue == Get(data, field.confirmAgainst, <<>>)
         IN  IF value # confirmValue THEN <<ConfirmMessage(field)>> ELSE <<>>
    ELSE <<>>

\* the messages written to newErrors[field.name], in the order written
FieldErrors(field, data) ==
    LET value == Get(data, field.name, <<>>)
    IN  RequiredCheck(field, value) \o NumberCheck(field, value)
            \o ConfirmCheck(field, value, data)

\* newErrors after the forEach: the last message written for each field
validateForm(fs, data) ==
    LET failing == {i \in 1..Len(fs) : FieldErrors(fs[i], data) # <<>>}
    IN  [n \in {fs[i].name : i \in failing} |->
            LET i == CHOOSE j \in failing : fs[j].name = n
                msgs == FieldErrors(fs[i], data)
            IN  msgs[Len(msgs)]]

(***************************************************************************)
(* Form: initial state and event handlers                                  *)
(***************************************************************************)
FormInit ==
    /\ fields \in FieldLists
    /\ formData = EmptyRecord
    /\ errors = EmptyRecord
    /\ readers = <<>>
    /\ submitOutcome = "none"
    /\ rejectionBeforeSubmit = FALSE
    /\ onSubmitArg = EmptyRecord
    /\ entered = EmptyRecord

\* errors[name] is truthy
ShowsError(errs, name) == Has(errs, name) /\ errs[name] # ""

\* some field shows the file-type rejection
ShowsRejection(errs) == \E n \in DOMAIN errs : errs[n] = NotAnImageMessage

ClearAllErrors(name, upd) ==
    IF ShowsError(errors, name) THEN [k \in DOMAIN upd |-> ""] ELSE upd

\* the trailing "if (errors[name]) setErrors(prev => ({...prev, [name]: ''}))"
\* of handleInputChange, applied after the update upd of the same event;
\* errors[name] is read from the render the handler was created in
ClearError(name, upd) ==
    IF ShowsError(errors, name) THEN Spread(upd, [k \in {name} |-> ""]) ELSE upd

\* handleInputChange on a text, number or password input
ChangeInput(i, value) ==
    LET name == fields[i].name
    IN  /\ fields[i].type # "file"
        /\ formData' = Spread(formData, [k \in {name} |-> value])
        /\ errors' = ClearError(name, errors)
        /\ entered' = Spread(entered, [k \in {name} |-> value])
        /\ submitOutcome' = "none"
        /\ rejectionBeforeSubmit' = FALSE
        /\ onSubmitArg' = EmptyRecord
        /\ UNCHANGED <<fields, readers, notForm>>

\* handleInputChange on a file input with a file chosen
SelectFile(i, file) ==
    LET name == fields[i].name
    IN  /\ fields[i].type = "file"
        /\ IF IsImage(file)
           THEN /\ Len(readers) < MaxReaders
                /\ readers' = Append(readers, [name |-> name, file |-> file])
                /\ errors' = ClearError(name, errors)
                /\ entered' = Spread(entered, [k \in {name} |-> readAsDataURL(file)])
           ELSE /\ readers' = readers
                /\ errors' = ClearError(name,
                                Spread(errors, [k \in {name} |-> NotAnImageMessage]))
                /\ entered' = entered
        /\ submitOutcome' = "none"
        /\ rejectionBeforeSubmit' = FALSE
        /\ onSubmitArg' = EmptyRecord
        /\ UNCHANGED <<fields, formData, notForm>>

\* handleInputChange on a file input whose selection was emptied: files[0]
\* is undefined and the input's value is ''
ClearFile(i) ==
    LET name == fields[i].name
    IN  /\ fields[i].type = "file"
        /\ formData' = Spread(formData, [k \in {name} |-> <<>>])
        /\ errors' = ClearError(name, errors)
        /\ entered' = Spread(entered, [k \in {name} |-> <<>>])
        /\ submitOutcome' = "none"
        /\ rejectionBeforeSubmit' = FALSE
        /\ onSubmitArg' = EmptyRecord
        /\ UNCHANGED <<fields, readers, notForm>>

RemoveAt(s, k) == SubSeq(s, 1, k - 1) \o SubSeq(s, k + 1, Len(s))

\* reader.onload of the k-th pending read; reads finish in any order
ReaderOnload(k) ==
    /\ k \in 1..Len(readers)
    /\ formData' = Spread(formData,
            [n \in {readers[k].name} |-> readAsDataURL(readers[k].file)])
    /\ readers' = RemoveAt(readers, k)
    /\ submitOutcome' = "none"
    /\ rejectionBeforeSubmit' = FALSE
    /\ onSubmitArg' = EmptyRecord
    /\ UNCHANGED <<fields, errors, entered, notForm>>

\* a read that fails: no onerror handler is installed, nothing is stored
ReaderFail(k) ==
    /\ k \in 1..Len(readers)
    /\ readers' = RemoveAt(readers, k)
    /\ submitOutcome' = "none"
    /\ rejectionBeforeSubmit' = FALSE
    /\ onSubmitArg' = EmptyRecord
    /\ UNCHANGED <<fields, formData, errors, entered, notForm>>

\* handleSubmit: validateForm() sets the errors and onSubmit(formData) is
\* called when no field failed
handleSubmitMergesErrors ==
    LET newErrors == Spread(errors, validateForm(fields, formData))
    IN  /\ errors' = newErrors
        /\ rejectionBeforeSubmit' = ShowsRejection(errors)
        /\ IF \A n \in DOMAIN newErrors : newErrors[n] = ""
           THEN submitOutcome' = "invoked" /\ onSubmitArg' = formData
           ELSE submitOutcome' = "blocked" /\ onSubmitArg' = EmptyRecord
        /\ UNCHANGED <<fields, formData, readers, entered, notForm>>

handleSubmit ==
    LET newErrors == validateForm(fields, formData)
    IN  /\ errors' = newErrors
        /\ rejectionBeforeSubmit' = ShowsRejection(errors)
        /\ IF DOMAIN newErrors = {}
           THEN submitOutcome' = "invoked" /\ onSubmitArg' = formData
           ELSE submitOutcome' = "blocked" /\ onSubmitArg' = EmptyRecord
        /\ UNCHANGED <<fields, formData, readers, entered, notForm>>

(***************************************************************************)
(* HTTP request wrapper: configuration                                     *)
(***************************************************************************)
DEFAULT_CONFIG == [timeout |-> 30000, retries |-> 3, retryDelay |-> 1000]

DEFAULT_RETRY_CONFIG ==
    [maxRetries |-> 3, baseDelay |-> 1000, maxDelay |-> 10000,
     backoffMultiplier |-> 2]

\* the options argument of apiClient: every property is optional
CallOptions == {EmptyRecord,
                [retries |-> 0],
                [retries |-> 1],
                [retries |-> 5, retryDelay |-> 500]}

\* what the transport does with one fetch: an HTTP response, a connection
\* failure (fetch rejects with a TypeError), or no answer within the timeout
Answers == {[kind |-> "response", status |-> 200, statusText |-> "OK"],
            [kind |-> "response", status |-> 400, statusText |-> "Bad Request"],
            [kind |-> "response", status |-> 404, statusText |-> "Not Found"],
            [kind |-> "response", status |-> 429, statusText |-> "Too Many Requests"],
            [kind |-> "response", status |-> 503, statusText |-> "Service Unavailable"],
            [kind |-> "failure", message |-> "Failed to fetch"],
            [kind |-> "silence"]}

\* a transport script answers one fetch more than the wrapper may issue
ScriptLen == DEFAULT_RETRY_CONFIG.maxRetries + 1

Scripts == [1..ScriptLen -> Answers]

(***************************************************************************)
(* HTTP request wrapper: pure functions                                    *)
(***************************************************************************)
RECURSIVE pow(_, _)
pow(b, e) == IF e = 0 THEN 1 ELSE b * pow(b, e - 1)

min(a, b) == IF a < b THEN a ELSE b

calculateRetryDelayUncapped(k, config) ==
    config.baseDelay * pow(config.backoffMultiplier, k - 1)

calculateRetryDelay(k, config) ==
    LET delay == config.baseDelay * pow(config.backoffMultiplier, k - 1)
    IN  min(delay, config.maxDelay)

\* error.message.includes('fetch')
IncludesFetch(message) ==
    message \in {"Failed to fetch",
                 "NetworkError when attempting to fetch resource."}

\* an error object lacks name or status unless the code that built it set them
isRetryableError(error, onLine) ==
    \/ ~onLine
    \/ Has(error, "name") /\ error.name = "TimeoutError"
    \/ Has(error, "status") /\ error.status >= 500 /\ error.status < 600
    \/ Has(error, "status") /\ error.status = 429
    \/ Has(error, "name") /\ error.name = "TypeError" /\ IncludesFetch(error.message)

\* response.ok
ResponseOk(response) == response.status >= 200 /\ response.status <= 299

\* contentType && contentType.includes('application/json'); a response
\* without the header has contentType null
IsJsonType(response) ==
    Get(response, "contentType", "") \in
        {"application/json", "application/json; charset=utf-8"}

\* the body of a response: JSON text of an object, the JSON text null, plain
\* text, or a stream that cannot be read; a response described without a
\* body has an empty text body
BodyOf(response) == Get(response, "body", [kind |-> "text", text |-> ""])

\* the try/catch of parseResponse that computes errorData; isNull tells the
\* JSON value null, which has no properties
ErrorData(response) ==
    LET body == BodyOf(response)
        caught == [isNull |-> FALSE, data |-> [message |-> "Unknown error occurred"]]
    IN  IF IsJsonType(response)
        THEN CASE body.kind = "json"     -> [isNull |-> FALSE, data |-> body.value]
               [] body.kind = "jsonNull" -> [isNull |-> TRUE]
               [] OTHER                  -> caught
        ELSE CASE body.kind = "text" -> [isNull |-> FALSE, data |-> [message |-> body.text]]
               [] OTHER              -> caught

\* the ApiErrorResponse parseResponse throws for a non-2xx response;
\* timestamp is the number of the fetch it answers.  x || y takes y for a
\* missing or empty string x; an array, also an empty one, is truthy.
ApiErrorResponse(response, now) ==
    LET errorData == ErrorData(response).data
        message == Get(errorData, "message", "")
        code == Get(errorData, "code", "")
    IN  [success   |-> FALSE,
         message   |-> IF message # "" THEN message
                       ELSE "HTTP " \o ToString(response.status) \o ": "
                                \o response.statusText,
         errors    |-> IF Has(errorData, "errors") THEN errorData.errors
                       ELSE <<IF message # "" THEN message ELSE "Unknown error">>,
         errorCode |-> IF code # "" THEN code
                       ELSE "HTTP_" \o ToString(response.status),
         timestamp |-> now]

\* parseResponse: the value returned or the error thrown.  Reading a
\* property of null throws a TypeError outside the try block; response.json()
\* and response.text() of a 2xx response are not guarded either.
parseResponse(response, now) ==
    LET body == BodyOf(response)
    IN  IF ~ResponseOk(response)
        THEN IF ErrorData(response).isNull
             THEN [thrown |-> TRUE,
                   error |-> [name |-> "TypeError",
                              message |-> "Cannot read properties of null",
                              id |-> now]]
             ELSE [thrown |-> TRUE, error |-> ApiErrorResponse(response, now)]
        ELSE IF IsJsonType(response)
        THEN CASE body.kind = "json"     -> [thrown |-> FALSE, value |-> body.value]
               [] body.kind = "jsonNull" -> [thrown |-> FALSE, value |-> [isNull |-> TRUE]]
               [] OTHER ->
                    [thrown |-> TRUE,
                     error |-> [name |-> "SyntaxError",
                                message |-> "Unexpected token in JSON", id |-> now]]
        ELSE CASE body.kind = "text" ->
                    [thrown |-> FALSE,
                     value |-> [success |-> TRUE, data |-> body.text, timestamp |-> now]]
               [] OTHER ->
                    [thrown |-> TRUE,
                     error |-> [name |-> "TypeError",
                                message |-> "Failed to read the body", id |-> now]]

\* requestFn followed by parseResponse, for one answer of the transport.
\* fetch rejects with a TypeError on a connection failure; when the timer
\* of requestFn fires first, controller.abort() makes it reject with the
\* DOMException named AbortError.  id tells the error objects of different
\* attempts apart.
AttemptResult(answer, now) ==
    CASE answer.kind = "response" -> parseResponse(answer, now)
      [] answer.kind = "failure"  ->
            [thrown |-> TRUE,
             error |-> [name |-> "TypeError", message |-> answer.message, id |-> now]]
      [] answer.kind = "silence"  ->
            [thrown |-> TRUE,
             error |-> [name |-> "AbortError",
                        message |-> "signal is aborted without reason", id |-> now]]

\* const { timeout = ..., retries = ..., retryDelay = ... } = options,
\* the config object apiClient hands to retryRequest
RequestConfig(opts) ==
    [timeout    |-> Get(opts, "timeout", DEFAULT_CONFIG.timeout),
     retries    |-> Get(opts, "retries", DEFAULT_CONFIG.retries),
     retryDelay |-> Get(opts, "retryDelay", DEFAULT_CONFIG.retryDelay)]

Without(r, keys) == [k \in DOMAIN r \ keys |-> r[k]]

\* getAuthToken: localStorage.getItem('authToken'), "" standing for null
getAuthToken(storage) == Get(storage, "authToken", "")

\* createHeaders(customHeaders), reading the token from the storage
createHeaders(customHeaders, storage) ==
    LET headers == Spread(("Content-Type" :> "application/json"), customHeaders)
        token == getAuthToken(storage)
    IN  IF token # ""
        THEN Spread(headers, ("Authorization" :> ("Bearer " \o token)))
        ELSE headers

\* the second argument of fetch in requestFn: { ...fetchOptions, headers:
\* createHeaders(customHeaders), signal }, where fetchOptions is what the
\* destructuring of options leaves
FetchInit(opts, storage) ==
    Spread(Without(opts, {"timeout", "retries", "retryDelay", "headers"}),
           [headers |-> createHeaders(Get(opts, "headers", EmptyRecord), storage)])

NoRequest == EmptyRecord

\* JSON.stringify(data)
JSONstringify(data) == [kind |-> "string", json |-> data]

\* new FormData() with formData.append(name, file)
FormDataWith(name, file) ==
    [kind |-> "FormData", entries |-> <<[name |-> name, value |-> file]>>]

\* the options the convenience wrappers hand to apiClient
apiGet(config) == Spread([method |-> "GET"], config)

apiPost(data, config) ==
    Spread([method |-> "POST", body |-> JSONstringify(data)], config)

apiPut(data, config) ==
    Spread([method |-> "PUT", body |-> JSONstringify(data)], config)

apiDelete(config) == Spread([method |-> "DELETE"], config)

apiUpload(file, config) ==
    Spread([method |-> "POST", body |-> FormDataWith("file", file),
            headers |-> EmptyRecord], config)

\* the config argument callers give to the wrappers
WrapperConfigs ==
    {EmptyRecord, [retries |-> 0], [headers |-> ("X-Request-Id" :> "r1")]}

UploadFiles == {[name |-> "photo.png", type |-> "image/png"]}

WrapperCalls ==
    UNION {{apiGet(c), apiPost("person", c), apiPut("person", c), apiDelete(c)}
              \cup {apiUpload(f, c) : f \in UploadFiles} : c \in WrapperConfigs}

\* transports that give every fetch the same answer
SteadyScripts ==
    {[k \in 1..ScriptLen |-> a] :
        a \in {[kind |-> "response", status |-> 200, statusText |-> "OK"],
               [kind |-> "response", status |-> 404, statusText |-> "Not Found"],
               [kind |-> "failure", message |-> "Failed to fetch"]}}

\* retryRequest: const retryConfig = { ...DEFAULT_RETRY_CONFIG, ...config }
RetryConfigOf(config) == Spread(DEFAULT_RETRY_CONFIG, config)

ShouldRetryAnyError(k, retryConfig, error, onLine) ==
    k < retryConfig.maxRetries

ShouldRetryOneMore(k, retryConfig, error, onLine) ==
    k <= retryConfig.maxRetries /\ isRetryableError(error, onLine)

\* retryRequest: attempt < retryConfig.maxRetries && isRetryableError(error)
ShouldRetry(k, retryConfig, error, onLine) ==
    k < retryConfig.maxRetries /\ isRetryableError(error, onLine)

(***************************************************************************)
(* HTTP request wrapper: state and steps                                   *)
(***************************************************************************)
NoResult == [state |-> "none"]

ApiInit ==
    /\ navigatorOnLine \in BOOLEAN
    /\ networkStatus = [isOnline |-> navigatorOnLine, retryCount |-> 0]
    /\ eventQueue = <<>>
    /\ pc = "idle"
    /\ options = EmptyRecord
    /\ transport = <<>>
    /\ attempt = 0
    /\ fetchCount = 0
    /\ delays = <<>>
    /\ callResult = NoResult
    /\ offlineAtCatch = FALSE
    /\ request = NoRequest
    /\ localStorage = EmptyRecord
    /\ offlineFetches = {}

\* the browser flips navigator.onLine and queues the matching event
ConnectivityChange ==
    /\ Len(eventQueue) < MaxPendingEvents
    /\ navigatorOnLine' = ~navigatorOnLine
    /\ eventQueue' = Append(eventQueue, IF navigatorOnLine THEN "offline" ELSE "online")
    /\ UNCHANGED <<networkStatus, pc, options, transport, attempt, fetchCount,
                   delays, callResult, offlineAtCatch, request, localStorage,
                   offlineFetches, notApi>>

\* window.addEventListener('online', ...): lastChecked is not modelled
OnOnline ==
    /\ eventQueue # <<>> /\ Head(eventQueue) = "online"
    /\ networkStatus' = [isOnline |-> TRUE, retryCount |-> 0]
    /\ eventQueue' = Tail(eventQueue)
    /\ UNCHANGED <<navigatorOnLine, pc, options, transport, attempt, fetchCount,
                   delays, callResult, offlineAtCatch, request, localStorage,
                   offlineFetches, notApi>>

\* window.addEventListener('offline', ...)
OnOffline ==
    /\ eventQueue # <<>> /\ Head(eventQueue) = "offline"
    /\ networkStatus' = [networkStatus EXCEPT !.isOnline = FALSE]
    /\ eventQueue' = Tail(eventQueue)
    /\ UNCHANGED <<navigatorOnLine, pc, options, transport, attempt, fetchCount,
                   delays, callResult, offlineAtCatch, request, localStorage,
                   offlineFetches, notApi>>

MayProceedUnchecked(status) == TRUE

\* the network check at the head of apiClient
MayProceed(status) == status.isOnline

\* apiClient up to its first await: reject when offline, else issue fetch 1
apiClient(opts, script) ==
    /\ pc = "idle"
    /\ options' = opts
    /\ transport' = script
    /\ delays' = <<>>
    /\ offlineAtCatch' = FALSE
    /\ IF ~MayProceed(networkStatus)
       THEN /\ pc' = "done"
            /\ attempt' = 0
            /\ fetchCount' = 0
            /\ callResult' = [state |-> "rejected",
                              error |-> [name |-> "Error",
                                         message |-> "No internet connection",
                                         id |-> 0]]
            /\ request' = NoRequest
            /\ offlineFetches' = {}
       ELSE /\ pc' = "fetching"
            /\ attempt' = 1
            /\ fetchCount' = 1
            /\ callResult' = NoResult
            /\ request' = FetchInit(opts, localStorage)
            /\ offlineFetches' = IF networkStatus.isOnline THEN {} ELSE {1}
    /\ UNCHANGED <<navigatorOnLine, networkStatus, eventQueue, localStorage, notApi>>

\* a caller invokes apiClient against some transport
StartCall ==
    /\ pc = "idle"
    /\ \E opts \in CallOptions : \E script \in Scripts : apiClient(opts, script)

\* a caller invokes one of the convenience wrappers
StartWrapperCall ==
    /\ pc = "idle"
    /\ \E opts \in WrapperCalls : \E script \in SteadyScripts : apiClient(opts, script)

\* the pending fetch settles: the try block of retryRequest (or of the
\* single-request path) returns, or its catch block decides about a retry
FetchSettles ==
    /\ pc = "fetching"
    /\ LET config == RequestConfig(options)
           r      == AttemptResult(transport[fetchCount], fetchCount)
       IN  IF ~r.thrown
           THEN /\ pc' = "done"
                /\ callResult' = [state |-> "resolved", value |-> r.value]
                /\ UNCHANGED <<delays, offlineAtCatch>>
           ELSE IF config.retries > 0
                   /\ ShouldRetry(attempt, RetryConfigOf(config), r.error, navigatorOnLine)
                THEN /\ pc' = "delaying"
                     /\ delays' = Append(delays,
                            calculateRetryDelay(attempt, RetryConfigOf(config)))
                     /\ offlineAtCatch' = (offlineAtCatch \/ ~navigatorOnLine)
                     /\ UNCHANGED callResult
                ELSE /\ pc' = "done"
                     /\ callResult' = [state |-> "rejected", error |-> r.error]
                     /\ offlineAtCatch' = (offlineAtCatch \/ ~navigatorOnLine)
                     /\ UNCHANGED delays
    /\ UNCHANGED <<navigatorOnLine, networkStatus, eventQueue, options, transport,
                   attempt, fetchCount, request, localStorage, offlineFetches,
                   notApi>>

\* the setTimeout of the delay fires: retryRequest(requestFn, config, attempt + 1)
DelayElapsed ==
    /\ pc = "delaying"
    /\ pc' = "fetching"
    /\ attempt' = attempt + 1
    /\ fetchCount' = fetchCount + 1
    /\ request' = FetchInit(options, localStorage)
    /\ offlineFetches' = IF networkStatus.isOnline THEN offlineFetches
                         ELSE offlineFetches \cup {fetchCount + 1}
    /\ UNCHANGED <<navigatorOnLine, networkStatus, eventQueue, options, transport,
                   delays, callResult, offlineAtCatch, localStorage, notApi>>

\* the caller has consumed the settled promise; the next call may start
CallReturns ==
    /\ pc = "done"
    /\ pc' = "idle"
    /\ options' = EmptyRecord
    /\ transport' = <<>>
    /\ attempt' = 0
    /\ fetchCount' = 0
    /\ delays' = <<>>
    /\ callResult' = NoResult
    /\ offlineAtCatch' = FALSE
    /\ request' = NoRequest
    /\ offlineFetches' = {}
    /\ UNCHANGED <<navigatorOnLine, networkStatus, eventQueue, localStorage, notApi>>

(***************************************************************************)
(* calculateRetryDelay over successive attempts of one configuration       *)
(***************************************************************************)
RetryConfigs ==
    [maxRetries : {3}, baseDelay : {500, 1000, 2000}, maxDelay : {2000, 10000},
     backoffMultiplier : {1, 2, 3}]

CalcInit ==
    /\ calcConfig \in RetryConfigs
    /\ calcDelays = <<>>

CalcNextAttempt ==
    /\ Len(calcDelays) < MaxCalcAttempt
    /\ calcDelays' = Append(calcDelays,
                            calculateRetryDelay(Len(calcDelays) + 1, calcConfig))
    /\ UNCHANGED <<calcConfig, notCalc>>

(***************************************************************************)
(* parseResponse on one response                                           *)
(***************************************************************************)
JsonBodies ==
    {[kind |-> "json", value |-> v] :
        v \in {EmptyRecord,
               [message |-> "Email already registered"],
               [message |-> "Validation failed",
                errors |-> <<"Email is invalid", "Password is too short">>,
                code |-> "VALIDATION_ERROR"],
               [message |-> "Validation failed", errors |-> <<>>],
               [errors |-> <<>>],
               [success |-> TRUE, data |-> "person"]}}
        \cup {[kind |-> "jsonNull"], [kind |-> "unreadable"]}

TextBodies ==
    {[kind |-> "text", text |-> ""],
     [kind |-> "text", text |-> "Bad Gateway"],
     [kind |-> "unreadable"]}

Statuses ==
    {[status |-> 200, statusText |-> "OK"],
     [status |-> 400, statusText |-> "Bad Request"],
     [status |-> 404, statusText |-> "Not Found"],
     [status |-> 429, statusText |-> "Too Many Requests"],
     [status |-> 500, statusText |-> "Internal Server Error"],
     [status |-> 503, statusText |-> "Service Unavailable"]}

Responses ==
    {Spread(st, [contentType |-> "application/json", body |-> b]) :
        st \in Statuses, b \in JsonBodies}
    \cup {Spread(st, [contentType |-> "text/plain", body |-> b]) :
            st \in Statuses, b \in TextBodies}
    \cup {Spread(st, [body |-> b]) : st \in Statuses, b \in TextBodies}

NotParsed == [parsed |-> FALSE]

ParseInit ==
    /\ parseInput \in Responses
    /\ parseOutput = NotParsed

\* parseResponse(response)
ParseRun ==
    /\ parseOutput = NotParsed
    /\ parseOutput' = Spread([parsed |-> TRUE], parseResponse(parseInput, 1))
    /\ UNCHANGED <<parseInput, notParse>>

\* the next response arrives
ParseAnother ==
    /\ parseOutput # NotParsed
    /\ \E r \in Responses : parseInput' = r
    /\ parseOutput' = NotParsed
    /\ UNCHANGED notParse

ParseIdle ==
    /\ parseInput = [status |-> 200, statusText |-> "OK"]
    /\ parseOutput = NotParsed

(***************************************************************************)
(* Authentication: ApiClient of services/api.ts and the AuthProvider       *)
(***************************************************************************)
\* a nullable value is Null or Some(v)
Null == <<>>

Some(v) == <<v>>

\* x is truthy, for a nullable string
Truthy(x) == x # Null /\ x[1] # ""

Users == {[id |-> 1, email |-> "ann@example.org"],
          [id |-> 2, email |-> "bob@example.org"]}

\* JSON bodies of the auth endpoints
AuthBodies ==
    {[success |-> TRUE, user |-> u, token |-> "token-1"] : u \in Users}
    \cup {[success |-> TRUE, user |-> u] : u \in Users}
    \cup {[success |-> TRUE],
          [success |-> TRUE, token |-> "token-1"],
          [success |-> FALSE, message |-> "Invalid credentials"],
          [success |-> FALSE, message |-> "Validation failed",
           errors |-> <<"Email is invalid", "Password is too short">>],
          [success |-> FALSE, message |-> "Validation failed", errors |-> <<>>],
          [success |-> FALSE],
          [message |-> "Unauthorized"],
          EmptyRecord}

\* what the transport does with the fetch of makeRequest
AuthAnswers ==
    {[kind |-> "failure", message |-> "Failed to fetch"]}
    \cup {[kind |-> "response", status |-> 200, statusText |-> "OK",
           body |-> [kind |-> "json", value |-> v]] : v \in AuthBodies}
    \cup {[kind |-> "response", status |-> 200, statusText |-> "OK",
           body |-> [kind |-> "jsonNull"]],
          [kind |-> "response", status |-> 502, statusText |-> "Bad Gateway",
           body |-> [kind |-> "invalid"]],
          [kind |-> "response", status |-> 500, statusText |-> "Internal Server Error",
           body |-> [kind |-> "jsonNull"]],
          [kind |-> "response", status |-> 500, statusText |-> "Internal Server Error",
           body |-> [kind |-> "json", value |-> EmptyRecord]],
          [kind |-> "response", status |-> 401, statusText |-> "Unauthorized",
           body |-> [kind |-> "json", value |-> [message |-> "Unauthorized"]]],
          [kind |-> "response", status |-> 401, statusText |-> "Unauthorized",
           body |-> [kind |-> "json",
                     value |-> [success |-> FALSE, message |-> "Invalid credentials"]]]}

\* makeRequest: never rejects; { data, error }
makeRequest(answer) ==
    IF answer.kind = "failure"
    THEN [data |-> Null, error |-> Some(answer.message)]
    ELSE CASE answer.body.kind = "invalid" ->
                [data |-> Null, error |-> Some("Unexpected token < in JSON")]
           [] answer.body.kind = "jsonNull" ->
                IF ~ResponseOk(answer)
                THEN [data |-> Null, error |-> Some("Cannot read properties of null")]
                ELSE [data |-> Null, error |-> Null]
           [] OTHER ->
                LET data == answer.body.value
                    message == Get(data, "message", "")
                IN  IF ~ResponseOk(answer)
                    THEN [data |-> Null,
                          error |-> Some(IF message # "" THEN message
                                         ELSE "HTTP " \o ToString(answer.status)
                                                  \o ": " \o answer.statusText)]
                    ELSE [data |-> Some(data), error |-> Null]

\* api.login and api.register: the token kept after the call
TokenAfterAuth(token, result) ==
    IF /\ result.data # Null
       /\ Get(result.data[1], "success", FALSE)
       /\ Get(result.data[1], "token", "") # ""
    THEN Some(result.data[1].token)
    ELSE token

TokenAfterLogoutOnSuccess(token, result) ==
    IF result.error # Null THEN token ELSE Null

\* api.logout: this.setToken(null) whatever the answer
TokenAfterLogout(token, result) == Null

\* getHeaders of the ApiClient
getHeaders(token) ==
    IF Truthy(token)
    THEN ("Content-Type" :> "application/json")
            @@ ("Authorization" :> ("Bearer " \o token[1]))
    ELSE ("Content-Type" :> "application/json")

\* array.join(separator)
RECURSIVE join(_, _)
join(array, separator) ==
    IF Len(array) = 0 THEN ""
    ELSE IF Len(array) = 1 THEN array[1]
    ELSE array[1] \o separator \o join(Tail(array), separator)

\* the React state the handlers write
State == [user |-> user, isLoading |-> isLoading, error |-> authError]

handleAuthSuccessKeepsLoading(st, authResponse) ==
    IF Has(authResponse, "user")
    THEN [user |-> Some(authResponse.user), error |-> Null, isLoading |-> FALSE]
    ELSE [user |-> st.user, error |-> st.error, isLoading |-> st.isLoading]

handleAuthSuccess(st, authResponse) ==
    IF Has(authResponse, "user")
    THEN [user |-> Some(authResponse.user), error |-> Null, isLoading |-> FALSE]
    ELSE [user |-> st.user, error |-> st.error, isLoading |-> FALSE]

handleAuthFailureKeepsUser(st, errorMessage) ==
    [user |-> st.user, error |-> Some(errorMessage), isLoading |-> FALSE]

handleAuthFailure(st, errorMessage) ==
    [user |-> Null, error |-> Some(errorMessage), isLoading |-> FALSE]

\* the body of login and register after the await; generic is the fallback
\* text of the operation
AfterAuthCall(st, result, generic) ==
    IF Truthy(result.error) \/ result.data = Null
    THEN [state |-> handleAuthFailure(st,
                        IF Truthy(result.error) THEN result.error[1] ELSE generic),
          value |-> FALSE]
    ELSE LET data == result.data[1]
         IN  IF Get(data, "success", FALSE)
             THEN [state |-> handleAuthSuccess(st, data), value |-> TRUE]
             ELSE IF Has(data, "errors") /\ Len(data.errors) > 0
             THEN [state |-> handleAuthFailure(st, join(data.errors, ", ")),
                   value |-> FALSE]
             ELSE [state |-> handleAuthFailure(st,
                                IF Get(data, "message", "") # "" THEN data.message
                                ELSE generic),
                   value |-> FALSE]

login(st, result) == AfterAuthCall(st, result, "Login failed")

register(st, result) == AfterAuthCall(st, result, "Registration failed")

logoutKeepsUserOnError(st, result) ==
    [user |-> IF result.error # Null THEN st.user ELSE Null,
     error |-> st.error, isLoading |-> FALSE]

\* logout after the await: both the try and the catch block
logout(st, result) ==
    [user |-> Null, error |-> st.error, isLoading |-> FALSE]

checkAuthStoresError(st, result) ==
    IF Truthy(result.error) \/ result.data = Null
    THEN [user |-> Null,
          error |-> IF Truthy(result.error) THEN result.error ELSE st.error,
          isLoading |-> FALSE]
    ELSE LET data == result.data[1]
         IN  IF Get(data, "success", FALSE) /\ Has(data, "user")
             THEN [user |-> Some(data.user), error |-> Null, isLoading |-> FALSE]
             ELSE [user |-> Null, error |-> st.error, isLoading |-> FALSE]

\* checkAuth after the await
checkAuth(st, result) ==
    IF Truthy(result.error) \/ result.data = Null
    THEN [user |-> Null, error |-> st.error, isLoading |-> FALSE]
    ELSE LET data == result.data[1]
         IN  IF Get(data, "success", FALSE) /\ Has(data, "user")
             THEN [user |-> Some(data.user), error |-> Null, isLoading |-> FALSE]
             ELSE [user |-> Null, error |-> st.error, isLoading |-> FALSE]

NoReturn == [op |-> "none"]

\* AuthProvider after its first render, before the mount effect has run
AuthInit ==
    /\ user = Null
    /\ isLoading = TRUE
    /\ authError = Null
    /\ apiToken = Null
    /\ authPc = "mounting"
    /\ authReturn = NoReturn
    /\ authHeaders = EmptyRecord

\* every operation up to its await: setIsLoading(true); setError(null)
Begin(op) ==
    /\ isLoading' = TRUE
    /\ authError' = Null
    /\ authPc' = op
    /\ authReturn' = NoReturn
    /\ authHeaders' = getHeaders(apiToken)
    /\ UNCHANGED <<user, apiToken, notAuth>>

\* the three state setters applied when an operation finishes
Finish(op, st, ret) ==
    /\ user' = st.user
    /\ isLoading' = st.isLoading
    /\ authError' = st.error
    /\ authPc' = "idle"
    /\ authReturn' = Spread([op |-> op, before |-> user, tokenBefore |-> apiToken],
                            ret)
    /\ authHeaders' = authHeaders

\* useEffect(() => { checkAuth() }, [])
Mount ==
    /\ authPc = "mounting"
    /\ Begin("checkAuth")

\* the Login and Register screens and the NavBar are rendered only while
\* isLoading is false, so an operation starts only when none is pending
LoginStart ==
    /\ authPc = "idle"
    /\ Begin("login")

RegisterStart ==
    /\ authPc = "idle"
    /\ Begin("register")

LogoutStart ==
    /\ authPc = "idle"
    /\ Begin("logout")

CheckAuthSettles ==
    /\ authPc = "checkAuth"
    /\ \E answer \in AuthAnswers :
          LET result == makeRequest(answer)
          IN  Finish("checkAuth", checkAuth(State, result), [result |-> result])
    /\ UNCHANGED <<apiToken, notAuth>>

LoginSettles ==
    /\ authPc = "login"
    /\ \E answer \in AuthAnswers :
          LET result == makeRequest(answer)
              outcome == login(State, result)
          IN  /\ apiToken' = TokenAfterAuth(apiToken, result)
              /\ Finish("login", outcome.state,
                        [result |-> result, value |-> outcome.value])
    /\ UNCHANGED notAuth

RegisterSettles ==
    /\ authPc = "register"
    /\ \E answer \in AuthAnswers :
          LET result == makeRequest(answer)
              outcome == register(State, result)
          IN  /\ apiToken' = TokenAfterAuth(apiToken, result)
              /\ Finish("register", outcome.state,
                        [result |-> result, value |-> outcome.value])
    /\ UNCHANGED notAuth

LogoutSettles ==
    /\ authPc = "logout"
    /\ \E answer \in AuthAnswers :
          LET result == makeRequest(answer)
          IN  /\ apiToken' = TokenAfterLogout(apiToken, result)
              /\ Finish("logout", logout(State, result), [result |-> result])
    /\ UNCHANGED notAuth

\* clearError, called by the screens when a form is edited
clearError ==
    /\ authPc = "idle"
    /\ authError # Null
    /\ authError' = Null
    /\ authReturn' = NoReturn
    /\ UNCHANGED <<user, isLoading, apiToken, authPc, authHeaders, notAuth>>

AuthIdle ==
    /\ user = Null
    /\ isLoading = TRUE
    /\ authError = Null
    /\ apiToken = Null
    /\ authPc = "mounting"
    /\ authReturn = NoReturn
    /\ authHeaders = EmptyRecord

(***************************************************************************)
(* AppContent: the screen shown                                            *)
(***************************************************************************)
Screens == {"enter", "show", "login", "register"}

\* dummyPeople, by id
dummyPeople == <<1, 2>>

\* useState('login'), useState(dummyPeople)
AppInit ==
    /\ currentScreen = "login"
    /\ people = dummyPeople

\* what AppContent renders
Rendered ==
    IF isLoading THEN "Loading"
    ELSE IF user = Null
    THEN CASE currentScreen = "login"    -> "Login"
           [] currentScreen = "register" -> "Register"
           [] OTHER                      -> "nothing"
    ELSE CASE currentScreen = "enter" -> "EnterInfo"
           [] currentScreen = "show"  -> "ShowInfo"
           [] OTHER                   -> "NavBar only"

\* the NavBar is on the page
NavBarShown == ~isLoading /\ user # Null

\* handleLoginSubmit of the Login screen up to its await: clearError(), login()
LoginSubmit ==
    /\ Rendered = "Login"
    /\ authPc = "idle"
    /\ Begin("login")

\* handleRegisterSubmit of the Register screen up to its await
RegisterSubmit ==
    /\ Rendered = "Register"
    /\ authPc = "idle"
    /\ Begin("register")

\* handleLoginSubmit after the await: onLoginSuccess() when login gave true
LoginSubmitSettles ==
    /\ authPc = "login"
    /\ \E answer \in AuthAnswers :
          LET result == makeRequest(answer)
              outcome == login(State, result)
          IN  /\ apiToken' = TokenAfterAuth(apiToken, result)
              /\ Finish("login", outcome.state,
                        [result |-> result, value |-> outcome.value])
              /\ currentScreen' = IF outcome.value THEN "enter" ELSE currentScreen
    /\ UNCHANGED <<people, notAuthNorApp>>

\* handleRegisterSubmit after the await: onRegisterSuccess() on true
RegisterSubmitSettles ==
    /\ authPc = "register"
    /\ \E answer \in AuthAnswers :
          LET result == makeRequest(answer)
              outcome == register(State, result)
          IN  /\ apiToken' = TokenAfterAuth(apiToken, result)
              /\ Finish("register", outcome.state,
                        [result |-> result, value |-> outcome.value])
              /\ currentScreen' = IF outcome.value THEN "enter" ELSE currentScreen
    /\ UNCHANGED <<people, notAuthNorApp>>

\* handleSwitchToRegister, from the link on the Login screen
SwitchToRegister ==
    /\ Rendered = "Login"
    /\ currentScreen' = "register"
    /\ UNCHANGED <<people, authVars, notAuthNorApp>>

\* handleSwitchToLogin, from the link on the Register screen
SwitchToLogin ==
    /\ Rendered = "Register"
    /\ currentScreen' = "login"
    /\ UNCHANGED <<people, authVars, notAuthNorApp>>

\* handleScreenChange, from the NavBar buttons
handleScreenChange(screen) ==
    /\ NavBarShown
    /\ currentScreen' = screen
    /\ UNCHANGED <<people, authVars, notAuthNorApp>>

\* handleLogout of the NavBar up to its await
handleLogout ==
    /\ NavBarShown
    /\ authPc = "idle"
    /\ Begin("logout")

AppIdle ==
    /\ currentScreen = "login"
    /\ people = dummyPeople

(***************************************************************************)
(* The people list: ShowInfo's fetchPeople and EnterInfo's create          *)
(***************************************************************************)
\* the state AppContent is in after a login that gave a user and a token
SignedIn ==
    LET answer == [kind |-> "response", status |-> 200, statusText |-> "OK",
                   body |-> [kind |-> "json",
                             value |-> [success |-> TRUE,
                                        user |-> [id |-> 1, email |-> "ann@example.org"],
                                        token |-> "token-1"]]]
    IN  /\ user = Some([id |-> 1, email |-> "ann@example.org"])
        /\ isLoading = FALSE
        /\ authError = Null
        /\ apiToken = Some("token-1")
        /\ authPc = "idle"
        /\ authReturn = [op |-> "login", before |-> Null, tokenBefore |-> Null,
                         result |-> makeRequest(answer), value |-> TRUE]
        /\ authHeaders = getHeaders(Null)
        /\ currentScreen = "enter"
        /\ people = dummyPeople

RECURSIVE SortedSeq(_)
\* the rows of a set of ids in the order the backend lists them
SortedSeq(set) ==
    IF set = {} THEN <<>>
    ELSE LET least == CHOOSE x \in set : \A y \in set : x <= y
         IN  <<least>> \o SortedSeq(set \ {least})

Range(seq) == {seq[k] : k \in 1..Len(seq)}

NoCreate == [state |-> "none"]

PeopleInit ==
    /\ serverPeople \in {{}, Range(dummyPeople)}
    /\ fetches = <<>>
    /\ showIsLoading = FALSE
    /\ createCall = NoCreate
    /\ lost = {}

\* fetchPeople up to its await: the GET is on its way
fetchPeople ==
    /\ fetches' = Append(fetches, [state |-> "sent", appendedSince |-> {}])
    /\ showIsLoading' = TRUE

\* handleScreenChange from the NavBar; ShowInfo, when it appears, runs its
\* mount effect, and its state is dropped when it goes away
NavigateTo(screen) ==
    /\ NavBarShown
    /\ currentScreen' = screen
    /\ IF screen = "show" /\ currentScreen # "show"
       THEN Len(fetches) < MaxFetches /\ fetchPeople
       ELSE /\ fetches' = fetches
            /\ showIsLoading' = IF screen = "show" THEN showIsLoading ELSE FALSE
    /\ UNCHANGED <<people, serverPeople, createCall, lost, notPeople>>

\* the 30-second interval of ShowInfo
IntervalRefresh ==
    /\ Rendered = "ShowInfo"
    /\ Len(fetches) < MaxFetches
    /\ fetchPeople
    /\ UNCHANGED <<appVars, serverPeople, createCall, lost, notPeople>>

\* the Refresh button, disabled while isLoading
ManualRefresh ==
    /\ Rendered = "ShowInfo"
    /\ ~showIsLoading
    /\ Len(fetches) < MaxFetches
    /\ fetchPeople
    /\ UNCHANGED <<appVars, serverPeople, createCall, lost, notPeople>>

\* the backend answers the GET of the k-th pending fetchPeople
FetchServed(k) ==
    /\ k \in 1..Len(fetches)
    /\ fetches[k].state = "sent"
    /\ \E ok \in BOOLEAN :
          fetches' = [fetches EXCEPT ![k] =
                        IF ok
                        THEN Spread(@, [state |-> "answered", success |-> TRUE,
                                        data |-> SortedSeq(serverPeople)])
                        ELSE Spread(@, [state |-> "answered", success |-> FALSE])]
    /\ UNCHANGED <<appVars, serverPeople, showIsLoading, createCall, lost, notPeople>>

\* fetchPeople after its await: onPeopleUpdate(response.data) is
\* handlePeopleUpdate, which replaces the list
FetchCompletes(k) ==
    /\ k \in 1..Len(fetches)
    /\ fetches[k].state = "answered"
    /\ IF fetches[k].success
       THEN /\ people' = fetches[k].data
            /\ lost' = lost \cup {p \in fetches[k].appendedSince :
                                    p \in Range(people) /\ p \notin Range(fetches[k].data)}
       ELSE UNCHANGED <<people, lost>>
    /\ fetches' = RemoveAt(fetches, k)
    /\ showIsLoading' = IF currentScreen = "show" THEN FALSE ELSE showIsLoading
    /\ UNCHANGED <<currentScreen, serverPeople, createCall, notPeople>>

\* handleFormSubmit of EnterInfo up to the await of createPersonWithPhoto
CreateStart ==
    /\ Rendered = "EnterInfo"
    /\ createCall = NoCreate
    /\ Cardinality(serverPeople \ Range(dummyPeople)) < MaxCreates
    /\ createCall' = [state |-> "sent"]
    /\ UNCHANGED <<appVars, serverPeople, fetches, showIsLoading, lost, notPeople>>

\* the backend stores the person and answers with it, or refuses
CreateServed ==
    /\ createCall.state = "sent"
    /\ \/ LET id == Len(dummyPeople) + Cardinality(serverPeople \ Range(dummyPeople)) + 1
          IN  /\ serverPeople' = serverPeople \cup {id}
              /\ createCall' = [state |-> "answered", success |-> TRUE, data |-> id]
       \/ /\ serverPeople' = serverPeople
          /\ createCall' = [state |-> "answered", success |-> FALSE]
    /\ UNCHANGED <<appVars, fetches, showIsLoading, lost, notPeople>>

\* handleFormSubmit after the await: onPersonAdd(response.data) is
\* handlePersonAdd, which appends
CreateCompletes ==
    /\ createCall.state = "answered"
    /\ IF createCall.success
       THEN /\ people' = Append(people, createCall.data)
            /\ fetches' = [k \in 1..Len(fetches) |->
                             [fetches[k] EXCEPT !.appendedSince = @ \cup {createCall.data}]]
       ELSE UNCHANGED <<people, fetches>>
    /\ createCall' = NoCreate
    /\ UNCHANGED <<currentScreen, serverPeople, showIsLoading, lost, notPeople>>

PeopleIdle ==
    /\ serverPeople = {}
    /\ fetches = <<>>
    /\ showIsLoading = FALSE
    /\ createCall = NoCreate
    /\ lost = {}

(***************************************************************************)
(* The people service: uploadPhoto and createPersonWithPhoto               *)
(***************************************************************************)
FILE_UPLOAD_CONFIG ==
    [maxSize |-> 5 * 1024 * 1024,
     allowedTypes |-> <<"image/jpeg", "image/png", "image/webp", "image/gif">>,
     compress |-> TRUE]

PhotoFiles ==
    [size : {1024, 5 * 1024 * 1024, 5 * 1024 * 1024 + 1},
     type : {"image/jpeg", "image/png", "image/webp", "image/gif", "image/bmp",
             "application/pdf"}]

validateFileIgnoresSize(file) ==
    IF file.type \notin Range(FILE_UPLOAD_CONFIG.allowedTypes)
    THEN [valid |-> FALSE,
          error |-> "File type must be one of: "
                       \o join(FILE_UPLOAD_CONFIG.allowedTypes, ", ")]
    ELSE [valid |-> TRUE]

validateFile(file) ==
    IF file.size > FILE_UPLOAD_CONFIG.maxSize
    THEN [valid |-> FALSE,
          error |-> "File size must be less than "
                       \o ToString(FILE_UPLOAD_CONFIG.maxSize \div (1024 * 1024))
                       \o "MB"]
    ELSE IF file.type \notin Range(FILE_UPLOAD_CONFIG.allowedTypes)
    THEN [valid |-> FALSE,
          error |-> "File type must be one of: "
                       \o join(FILE_UPLOAD_CONFIG.allowedTypes, ", ")]
    ELSE [valid |-> TRUE]

\* file.type.startsWith('image/')
IsImageType(type) ==
    type \in {"image/jpeg", "image/png", "image/webp", "image/gif", "image/bmp"}

\* how compressImage may end for an image
CompressOutcomes ==
    {[ok |-> TRUE],
     [ok |-> FALSE, message |-> "Failed to compress image"],
     [ok |-> FALSE, message |-> "Failed to load image"]}

\* how apiUpload may end: the parsed body of a 2xx answer, or a rejection
UploadOutcomes ==
    {[ok |-> TRUE, body |-> [success |-> TRUE, data |-> [data |-> "/uploads/p1"]]],
     [ok |-> TRUE, body |-> [success |-> TRUE, data |-> [url |-> "/uploads/p1"]]],
     [ok |-> TRUE, body |-> [success |-> TRUE]],
     [ok |-> FALSE, message |-> "HTTP 500: Internal Server Error"],
     [ok |-> FALSE, message |-> "Failed to fetch"]}

\* how apiPost of createPerson may end
CreateOutcomes ==
    {[ok |-> TRUE, body |-> [success |-> TRUE, data |-> "person"]],
     [ok |-> FALSE, message |-> "HTTP 400: Bad Request"]}

NoOutcome == [state |-> "pending"]

Rejected(message) == [state |-> "rejected", message |-> message]

UploadInit ==
    /\ photoFile = Null
    /\ upPc = "idle"
    /\ upLog = <<>>
    /\ upResult = NoOutcome

\* createPerson: the POST is issued
IssueCreate(log, photoUrl) ==
    /\ upPc' = "creating"
    /\ upLog' = Append(log, [event |-> "create issued", photo |-> photoUrl])
    /\ upResult' = NoOutcome

\* createPersonWithPhoto up to its first await; uploadPhoto validates first
createPersonWithPhoto(file) ==
    /\ upPc = "idle"
    /\ photoFile' = file
    /\ IF file = Null
       THEN IssueCreate(<<>>, Null)
       ELSE IF ~validateFile(file[1]).valid
       THEN /\ upPc' = "done"
            /\ upLog' = <<>>
            /\ upResult' = Rejected(validateFile(file[1]).error)
       ELSE IF FILE_UPLOAD_CONFIG.compress /\ IsImageType(file[1].type)
       THEN /\ upPc' = "compressing"
            /\ upLog' = <<>>
            /\ upResult' = NoOutcome
       ELSE /\ upPc' = "uploading"
            /\ upLog' = <<[event |-> "upload issued"]>>
            /\ upResult' = NoOutcome
    /\ UNCHANGED notUpload

CallCreatePersonWithPhoto ==
    \E file \in {Null} \cup {Some(f) : f \in PhotoFiles} : createPersonWithPhoto(file)

\* compressImage settles; apiUpload is called with the compressed file
CompressSettles ==
    /\ upPc = "compressing"
    /\ \E outcome \in CompressOutcomes :
          IF outcome.ok
          THEN /\ upPc' = "uploading"
               /\ upLog' = Append(upLog, [event |-> "upload issued"])
               /\ upResult' = NoOutcome
          ELSE /\ upPc' = "done"
               /\ upLog' = upLog
               /\ upResult' = Rejected(outcome.message)
    /\ UNCHANGED <<photoFile, notUpload>>

\* apiUpload settles: uploadPhoto returns response.data and
\* createPersonWithPhoto reads its data property
UploadSettles ==
    /\ upPc = "uploading"
    /\ \E outcome \in UploadOutcomes :
          LET log == Append(upLog, [event |-> "upload settled", ok |-> outcome.ok])
          IN  IF ~outcome.ok
              THEN /\ upPc' = "done"
                   /\ upLog' = log
                   /\ upResult' = Rejected(outcome.message)
              ELSE IF ~Has(outcome.body, "data")
              THEN /\ upPc' = "done"
                   /\ upLog' = log
                   /\ upResult' = Rejected("Cannot read properties of undefined")
              ELSE IssueCreate(log,
                        IF Has(outcome.body.data, "data")
                        THEN Some(outcome.body.data.data) ELSE Null)
    /\ UNCHANGED <<photoFile, notUpload>>

\* apiPost of createPerson settles
CreateSettles ==
    /\ upPc = "creating"
    /\ \E outcome \in CreateOutcomes :
          /\ upResult' = IF outcome.ok
                         THEN [state |-> "resolved", value |-> outcome.body]
                         ELSE Rejected(outcome.message)
          /\ upLog' = Append(upLog, [event |-> "create settled", ok |-> outcome.ok])
    /\ upPc' = "done"
    /\ UNCHANGED <<photoFile, notUpload>>

\* the caller has the result; the next call may start
UploadReturns ==
    /\ upPc = "done"
    /\ photoFile' = Null
    /\ upPc' = "idle"
    /\ upLog' = <<>>
    /\ upResult' = NoOutcome
    /\ UNCHANGED notUpload

UploadIdle ==
    /\ photoFile = Null
    /\ upPc = "idle"
    /\ upLog = <<>>
    /\ upResult = NoOutcome

(***************************************************************************)
(* The EnterInfo screen: validation, auto-saved draft, submission          *)
(***************************************************************************)
Letters ==
    {"a", "b", "c", "d", "e", "f", "g", "h", "i", "j", "k", "l", "m", "n", "o",
     "p", "q", "r", "s", "t", "u", "v", "w", "x", "y", "z",
     "A", "B", "C", "D", "E", "F", "G", "H", "I", "J", "K", "L", "M", "N", "O",
     "P", "Q", "R", "S", "T", "U", "V", "W", "X", "Y", "Z"}

\* /^[a-zA-Z\s'-]+$/
IsNameText(s) ==
    /\ s # <<>>
    /\ \A k \in 1..Len(s) : s[k] \in Letters \/ IsWhitespace(s[k]) \/ s[k] \in {"'", "-"}

validateName(name) ==
    IF Trim(name) = <<>> THEN "Name is required"
    ELSE IF Len(Trim(name)) < 2 THEN "Name must be at least 2 characters"
    ELSE IF Len(Trim(name)) > 50 THEN "Name must be less than 50 characters"
    ELSE IF ~IsNameText(Trim(name))
    THEN "Name can only contain letters, spaces, hyphens, and apostrophes"
    ELSE ""

validateAge(age) ==
    IF Trim(age) = <<>> THEN "Age is required"
    ELSE LET numAge == parseInt(age)
         IN  IF isNaN(numAge) THEN "Age must be a valid number"
             ELSE IF numAge.val < 1 THEN "Age must be at least 1"
             ELSE IF numAge.val > 120 THEN "Age must be less than 120"
             ELSE ""

validateAddress(address) ==
    IF Trim(address) = <<>> THEN "Address is required"
    ELSE IF Len(Trim(address)) < 5 THEN "Address must be at least 5 characters"
    ELSE IF Len(Trim(address)) > 200 THEN "Address must be less than 200 characters"
    ELSE ""

\* phone.replace(/\D/g, '')
OnlyDigits(s) == SelectSeq(s, IsDigit)

\* /^[\+]?[1-9][\d]{0,15}$/ on a text of digits
IsPhoneText(s) == s # <<>> /\ s[1] # "0" /\ Len(s) <= 16

validatePhone(phone) ==
    IF Trim(phone) = <<>> THEN "Phone number is required"
    ELSE LET cleanPhone == OnlyDigits(phone)
         IN  IF Len(cleanPhone) < 10 THEN "Phone number must be at least 10 digits"
             ELSE IF Len(cleanPhone) > 15 THEN "Phone number must be less than 15 digits"
             ELSE IF ~IsPhoneText(cleanPhone) THEN "Please enter a valid phone number"
             ELSE ""

DataImagePrefix == <<"d", "a", "t", "a", ":", "i", "m", "a", "g", "e", "/">>

validatePhoto(photo) ==
    IF photo = <<>> THEN ""
    ELSE IF Len(photo) < Len(DataImagePrefix)
            \/ SubSeq(photo, 1, Len(DataImagePrefix)) # DataImagePrefix
    THEN "Please select a valid image file"
    ELSE ""

validateField(name, value) ==
    CASE name = "name" -> validateName(value)
      [] name = "age" -> validateAge(value)
      [] name = "address" -> validateAddress(value)
      [] name = "phone" -> validatePhone(value)
      [] name = "photo" -> validatePhoto(value)
      [] OTHER -> ""

\* the names of formFields with required: true
RequiredFields == {"name", "age", "address", "phone"}

\* what the user types into the text inputs of formFields
EntryInputs(name) ==
    CASE name = "name" -> {<<"A", "l">>, <<"A">>}
      [] name = "age" -> {<<"3", "0">>}
      [] name = "address" -> {<<"1", " ", "E", "l", "m">>}
      [] name = "phone" -> {<<"2", "5", "6", "1", "2", "3", "4", "5", "6", "7">>}

\* the errors loop of the validation effect and of handleFormSubmit: only
\* the keys of data are visited
ErrorsOf(data) ==
    LET bad == {n \in DOMAIN data : validateField(n, data[n]) # ""}
    IN  [n \in bad |-> validateField(n, data[n])]

\* updateValidationSummary: setIsFormValid(errorMessages.length === 0)
SummaryValid(errs) == {n \in DOMAIN errs : errs[n] # ""} = {}

\* JSON.stringify of the save record; a stored text that is no JSON
Stored(saveData) == [kind |-> "json", value |-> saveData]
Unparsable == [kind |-> "text"]

\* saveToLocalStorage: the value written under 'enterInfo_autoSave'
saveToLocalStorage(data, now) == Some(Stored([formData |-> data, timestamp |-> now]))

\* loadFromLocalStorage with hoursDiff <= 24
loadFromLocalStorageWithinADay(saved, now) ==
    IF saved = Null THEN Null
    ELSE IF saved[1].kind # "json" THEN Null
    ELSE IF now - saved[1].value.timestamp <= 24 * (1000 * 60 * 60)
    THEN Some(saved[1].value.formData)
    ELSE Null

\* loadFromLocalStorage: Some(savedData) when it calls setFormData(savedData),
\* Null when it restores nothing; JSON.parse throws on a text that is no JSON
loadFromLocalStorage(saved, now) ==
    IF saved = Null THEN Null
    ELSE IF saved[1].kind # "json" THEN Null
    ELSE IF now - saved[1].value.timestamp < 24 * (1000 * 60 * 60)
    THEN Some(saved[1].value.formData)
    ELSE Null

\* debouncedAutoSave from the auto-save effect: nothing happens for a
\* formData without keys, and the timer pending before is then left alone
AutoSaveEffect(data, timer) == IF DOMAIN data # {} THEN Some(data) ELSE timer

NoCall == [state |-> "none"]

\* the state of a freshly constructed component
EntryBlank ==
    /\ entryData' = EmptyRecord
    /\ fieldErrors' = EmptyRecord
    /\ isFormValid' = FALSE
    /\ entryIsLoading' = FALSE
    /\ showSubmissionConfirmation' = FALSE
    /\ showResetConfirmation' = FALSE

Drafts ==
    {EmptyRecord,
     [name |-> <<"A", "l">>],
     [name |-> <<"A", "l">>, age |-> <<"3", "0">>]}

EntryInit ==
    /\ entryMounted = FALSE
    /\ entryData = EmptyRecord
    /\ fieldErrors = EmptyRecord
    /\ isFormValid = FALSE
    /\ entryIsLoading = FALSE
    /\ showSubmissionConfirmation = FALSE
    /\ showResetConfirmation = FALSE
    /\ autoSaveTimer = Null
    /\ resetPromptTimer = FALSE
    /\ autoSave \in {Null, Some(Unparsable)}
                      \cup {saveToLocalStorage(d, 0) : d \in Drafts \ {EmptyRecord}}
    /\ clock = 0
    /\ entryCall = NoCall
    /\ mountLog = Null
    /\ discarded = Null

\* the three effects of the first render and, when the draft is restored,
\* the validation and auto-save effects of the render that follows
MountEntry ==
    /\ ~entryMounted
    /\ entryCall = NoCall
    /\ entryMounted' = TRUE
    /\ LET restored == loadFromLocalStorage(autoSave, clock)
           data == IF restored = Null THEN EmptyRecord ELSE restored[1]
       IN  /\ entryData' = data
           /\ fieldErrors' = ErrorsOf(data)
           /\ isFormValid' = SummaryValid(ErrorsOf(data))
           /\ autoSaveTimer' = IF restored = Null THEN Null
                               ELSE AutoSaveEffect(data, Null)
    /\ mountLog' = Some([saved |-> autoSave, at |-> clock])
    /\ UNCHANGED <<entryIsLoading, showSubmissionConfirmation, showResetConfirmation,
                   resetPromptTimer, autoSave, clock, entryCall, discarded, notEntry>>

\* the screen is left: the cleanup effect clears the pending save
UnmountEntry ==
    /\ entryMounted
    /\ entryCall = NoCall
    /\ entryMounted' = FALSE
    /\ EntryBlank
    /\ autoSaveTimer' = Null
    /\ resetPromptTimer' = FALSE
    /\ mountLog' = Null
    /\ UNCHANGED <<autoSave, clock, entryCall, discarded, notEntry>>

NoDialog == ~showSubmissionConfirmation /\ ~showResetConfirmation

\* handleInputChange for a text input, with the effects on [formData]
handleInputChange(name, value) ==
    /\ entryMounted /\ ~entryIsLoading /\ NoDialog
    /\ LET data == Spread(entryData, name :> value)
       IN  /\ entryData' = data
           /\ fieldErrors' = ErrorsOf(data)
           /\ isFormValid' = SummaryValid(ErrorsOf(data))
           /\ autoSaveTimer' = AutoSaveEffect(data, autoSaveTimer)
    /\ discarded' = Null
    /\ mountLog' = Null
    /\ UNCHANGED <<entryMounted, entryIsLoading, showSubmissionConfirmation,
                   showResetConfirmation, resetPromptTimer, autoSave, clock,
                   entryCall, notEntry>>

\* the timer of debouncedAutoSave fires
AutoSaveFires ==
    /\ autoSaveTimer # Null
    /\ autoSave' = saveToLocalStorage(autoSaveTimer[1], clock)
    /\ autoSaveTimer' = Null
    /\ mountLog' = Null
    /\ UNCHANGED <<entryMounted, entryData, fieldErrors, isFormValid, entryIsLoading,
                   showSubmissionConfirmation, showResetConfirmation,
                   resetPromptTimer, clock, entryCall, discarded, notEntry>>

\* handleKeyDown, Ctrl+S
ManualSave ==
    /\ entryMounted
    /\ autoSave' = saveToLocalStorage(entryData, clock)
    /\ mountLog' = Null
    /\ UNCHANGED <<entryMounted, entryData, fieldErrors, isFormValid, entryIsLoading,
                   showSubmissionConfirmation, showResetConfirmation, autoSaveTimer,
                   resetPromptTimer, clock, entryCall, discarded, notEntry>>

\* the Add Person button (disabled={!isFormValid || isSubmitting || isLoading})
\* and the Enter key of handleKeyDown
RequestSubmission ==
    /\ entryMounted /\ NoDialog
    /\ isFormValid /\ ~entryIsLoading
    /\ showSubmissionConfirmation' = TRUE
    /\ mountLog' = Null
    /\ UNCHANGED <<entryMounted, entryData, fieldErrors, isFormValid, entryIsLoading,
                   showResetConfirmation, autoSaveTimer, resetPromptTimer, autoSave,
                   clock, entryCall, discarded, notEntry>>

CancelSubmission ==
    /\ entryMounted /\ showSubmissionConfirmation
    /\ showSubmissionConfirmation' = FALSE
    /\ mountLog' = Null
    /\ UNCHANGED <<entryMounted, entryData, fieldErrors, isFormValid, entryIsLoading,
                   showResetConfirmation, autoSaveTimer, resetPromptTimer, autoSave,
                   clock, entryCall, discarded, notEntry>>

\* data.name || '', parseInt(data.age || '0'), data.address || '', data.phone || ''
PersonData(data) ==
    [name |-> Get(data, "name", <<>>),
     age |-> parseInt(IF Get(data, "age", <<>>) = <<>> THEN <<"0">> ELSE data.age),
     address |-> Get(data, "address", <<>>),
     phone |-> Get(data, "phone", <<>>)]

\* handleFormSubmit up to the call of createPersonWithPhoto, or to its
\* early return when the final validation finds an error
handleFormSubmit(data) ==
    LET finalErrors == ErrorsOf(data)
    IN  IF DOMAIN finalErrors # {}
        THEN /\ fieldErrors' = finalErrors
             /\ isFormValid' = SummaryValid(finalErrors)
             /\ entryIsLoading' = FALSE
             /\ entryCall' = NoCall
        ELSE /\ entryIsLoading' = TRUE
             /\ entryCall' = [state |-> "pending", data |-> data,
                              personData |-> PersonData(data)]
             /\ UNCHANGED <<fieldErrors, isFormValid>>

\* handleConfirmSubmission
handleConfirmSubmission ==
    /\ entryMounted /\ showSubmissionConfirmation
    /\ showSubmissionConfirmation' = FALSE
    /\ handleFormSubmit(entryData)
    /\ mountLog' = Null
    /\ UNCHANGED <<entryMounted, entryData, showResetConfirmation, autoSaveTimer,
                   resetPromptTimer, autoSave, clock, discarded, notEntry>>

\* createPersonWithPhoto settles: handleFormSubmit after its await
EntryCreateSettles ==
    /\ entryCall.state = "pending"
    /\ \E ok \in BOOLEAN :
          IF ok
          THEN \* onPersonAdd, clearAutoSave, setTimeout(..., 2000)
               /\ autoSave' = Null
               /\ resetPromptTimer' = TRUE
               /\ discarded' = Some(entryCall.data)
          ELSE UNCHANGED <<autoSave, resetPromptTimer, discarded>>
    /\ entryIsLoading' = FALSE
    /\ entryCall' = NoCall
    /\ mountLog' = Null
    /\ UNCHANGED <<entryMounted, entryData, fieldErrors, isFormValid,
                   showSubmissionConfirmation, showResetConfirmation, autoSaveTimer,
                   clock, notEntry>>

\* two seconds after a successful submission the reset dialog opens
ResetPromptFires ==
    /\ resetPromptTimer
    /\ resetPromptTimer' = FALSE
    /\ showResetConfirmation' = TRUE
    /\ mountLog' = Null
    /\ UNCHANGED <<entryMounted, entryData, fieldErrors, isFormValid, entryIsLoading,
                   showSubmissionConfirmation, autoSaveTimer, autoSave, clock,
                   entryCall, discarded, notEntry>>

\* the Reset Form button
RequestReset ==
    /\ entryMounted /\ NoDialog /\ ~entryIsLoading
    /\ showResetConfirmation' = TRUE
    /\ mountLog' = Null
    /\ UNCHANGED <<entryMounted, entryData, fieldErrors, isFormValid, entryIsLoading,
                   showSubmissionConfirmation, autoSaveTimer, resetPromptTimer,
                   autoSave, clock, entryCall, discarded, notEntry>>

CancelReset ==
    /\ entryMounted /\ showResetConfirmation
    /\ showResetConfirmation' = FALSE
    /\ mountLog' = Null
    /\ UNCHANGED <<entryMounted, entryData, fieldErrors, isFormValid, entryIsLoading,
                   showSubmissionConfirmation, autoSaveTimer, resetPromptTimer,
                   autoSave, clock, entryCall, discarded, notEntry>>

\* resetForm (the Yes button of the reset dialog), with the effects on
\* [formData] that run for the emptied formData
resetForm ==
    /\ entryMounted /\ showResetConfirmation
    /\ entryData' = EmptyRecord
    /\ fieldErrors' = ErrorsOf(EmptyRecord)
    /\ isFormValid' = SummaryValid(ErrorsOf(EmptyRecord))
    /\ showResetConfirmation' = FALSE
    /\ autoSaveTimer' = AutoSaveEffect(EmptyRecord, autoSaveTimer)
    /\ autoSave' = autoSave
    /\ discarded' = Some(entryData)
    /\ mountLog' = Null
    /\ UNCHANGED <<entryMounted, entryIsLoading, showSubmissionConfirmation,
                   resetPromptTimer, clock, entryCall, notEntry>>

\* time passes
ClockSteps == {12 * (1000 * 60 * 60), 24 * (1000 * 60 * 60) - 1}

Tick ==
    /\ \E d \in ClockSteps :
          /\ clock + d <= MaxClock
          /\ clock' = clock + d
    /\ mountLog' = Null
    /\ UNCHANGED <<entryMounted, entryData, fieldErrors, isFormValid, entryIsLoading,
                   showSubmissionConfirmation, showResetConfirmation, autoSaveTimer,
                   resetPromptTimer, autoSave, entryCall, discarded, notEntry>>

EntryIdle ==
    /\ entryMounted = FALSE
    /\ entryData = EmptyRecord
    /\ fieldErrors = EmptyRecord
    /\ isFormValid = FALSE
    /\ entryIsLoading = FALSE
    /\ showSubmissionConfirmation = FALSE
    /\ showResetConfirmation = FALSE
    /\ autoSaveTimer = Null
    /\ resetPromptTimer = FALSE
    /\ autoSave = Null
    /\ clock = 0
    /\ entryCall = NoCall
    /\ mountLog = Null
    /\ discarded = Null

MoreIdle == AppIdle /\ PeopleIdle /\ UploadIdle /\ EntryIdle

(***************************************************************************)
(* Specifications                                                          *)
(***************************************************************************)
FormIdle ==
    /\ fields = <<>>
    /\ formData = EmptyRecord
    /\ errors = EmptyRecord
    /\ readers = <<>>
    /\ submitOutcome = "none"
    /\ rejectionBeforeSubmit = FALSE
    /\ onSubmitArg = EmptyRecord
    /\ entered = EmptyRecord

ApiIdle ==
    /\ navigatorOnLine = TRUE
    /\ networkStatus = [isOnline |-> TRUE, retryCount |-> 0]
    /\ eventQueue = <<>>
    /\ pc = "idle"
    /\ options = EmptyRecord
    /\ transport = <<>>
    /\ attempt = 0
    /\ fetchCount = 0
    /\ delays = <<>>
    /\ callResult = NoResult
    /\ offlineAtCatch = FALSE
    /\ request = NoRequest
    /\ localStorage = EmptyRecord
    /\ offlineFetches = {}

CalcIdle ==
    /\ calcConfig = DEFAULT_RETRY_CONFIG
    /\ calcDelays = <<>>

\* the HTTP request wrapper
\* the form and the HTTP wrapper left alone
OldIdle == FormIdle /\ ApiIdle /\ CalcIdle /\ ParseIdle

Init == ApiInit /\ FormIdle /\ CalcIdle /\ ParseIdle /\ AuthIdle /\ MoreIdle

Next ==
    \/ ConnectivityChange
    \/ OnOnline
    \/ OnOffline
    \/ StartCall
    \/ FetchSettles
    \/ DelayElapsed
    \/ CallReturns

Spec == Init /\ [][Next]_vars

\* the Form component
FormSpecInit == FormInit /\ ApiIdle /\ CalcIdle /\ ParseIdle /\ AuthIdle /\ MoreIdle

FormNext ==
    \/ \E i \in 1..Len(fields) : \E v \in InputsFor(fields[i]) : ChangeInput(i, v)
    \/ \E i \in 1..Len(fields) : \E f \in Files : SelectFile(i, f)
    \/ \E i \in 1..Len(fields) : ClearFile(i)
    \/ \E k \in 1..MaxReaders : ReaderOnload(k)
    \/ \E k \in 1..MaxReaders : ReaderFail(k)
    \/ handleSubmit

FormSpec == FormSpecInit /\ [][FormNext]_vars

\* calculateRetryDelay
CalcSpecInit == CalcInit /\ FormIdle /\ ApiIdle /\ ParseIdle /\ AuthIdle /\ MoreIdle

CalcNext == CalcNextAttempt

CalcSpec == CalcSpecInit /\ [][CalcNext]_vars

\* the convenience wrappers and the requests they issue
WrapperSpecInit ==
    /\ navigatorOnLine = TRUE
    /\ networkStatus = [isOnline |-> TRUE, retryCount |-> 0]
    /\ eventQueue = <<>>
    /\ pc = "idle"
    /\ options = EmptyRecord
    /\ transport = <<>>
    /\ attempt = 0
    /\ fetchCount = 0
    /\ delays = <<>>
    /\ callResult = NoResult
    /\ offlineAtCatch = FALSE
    /\ request = NoRequest
    /\ localStorage \in {EmptyRecord, [authToken |-> "token-1"]}
    /\ offlineFetches = {}
    /\ MoreIdle
    /\ FormIdle /\ CalcIdle /\ ParseIdle /\ AuthIdle

WrapperNext ==
    \/ StartWrapperCall
    \/ FetchSettles
    \/ DelayElapsed
    \/ CallReturns

WrapperSpec == WrapperSpecInit /\ [][WrapperNext]_vars

\* the AuthProvider
AuthSpecInit == AuthInit /\ FormIdle /\ ApiIdle /\ CalcIdle /\ ParseIdle /\ MoreIdle

AuthNext ==
    \/ Mount
    \/ LoginStart
    \/ RegisterStart
    \/ LogoutStart
    \/ CheckAuthSettles
    \/ LoginSettles
    \/ RegisterSettles
    \/ LogoutSettles
    \/ clearError

AuthSpec == AuthSpecInit /\ [][AuthNext]_vars

\* the AuthProvider with every pending request settling: fetch resolves or
\* rejects, and the mount effect runs after the first render
AuthLiveSpec ==
    /\ AuthSpec
    /\ WF_vars(Mount)
    /\ WF_vars(CheckAuthSettles)
    /\ WF_vars(LoginSettles)
    /\ WF_vars(RegisterSettles)
    /\ WF_vars(LogoutSettles)

\* a session: the AuthProvider signs in and out through the ApiClient while
\* the people API sends its requests through the HTTP wrapper; the browser
\* starts with nothing under 'authToken'
SessionSpecInit == AuthInit /\ ApiIdle /\ FormIdle /\ CalcIdle /\ ParseIdle /\ MoreIdle

SessionNext ==
    \/ Mount
    \/ LoginStart
    \/ RegisterStart
    \/ LogoutStart
    \/ CheckAuthSettles
    \/ LoginSettles
    \/ RegisterSettles
    \/ LogoutSettles
    \/ clearError
    \/ StartWrapperCall
    \/ FetchSettles
    \/ DelayElapsed
    \/ CallReturns

SessionSpec == SessionSpecInit /\ [][SessionNext]_vars

\* AppContent inside the AuthProvider
AppSpecInit == AuthInit /\ AppInit /\ PeopleIdle /\ UploadIdle /\ EntryIdle /\ OldIdle

AppNext ==
    \/ Mount
    \/ CheckAuthSettles
    \/ LoginSubmit
    \/ LoginSubmitSettles
    \/ RegisterSubmit
    \/ RegisterSubmitSettles
    \/ SwitchToRegister
    \/ SwitchToLogin
    \/ \E screen \in {"enter", "show"} : handleScreenChange(screen)
    \/ handleLogout
    \/ LogoutSettles

AppSpec == AppSpecInit /\ [][AppNext]_vars

\* the people list of a signed-in user
PeopleSpecInit == SignedIn /\ PeopleInit /\ UploadIdle /\ EntryIdle /\ OldIdle

PeopleNext ==
    \/ \E screen \in {"enter", "show"} : NavigateTo(screen)
    \/ IntervalRefresh
    \/ ManualRefresh
    \/ \E k \in 1..MaxFetches : FetchServed(k)
    \/ \E k \in 1..MaxFetches : FetchCompletes(k)
    \/ CreateStart
    \/ CreateServed
    \/ CreateCompletes

PeopleSpec == PeopleSpecInit /\ [][PeopleNext]_vars

\* createPersonWithPhoto
UploadSpecInit == UploadInit /\ AuthIdle /\ AppIdle /\ PeopleIdle /\ EntryIdle /\ OldIdle

UploadNext ==
    \/ CallCreatePersonWithPhoto
    \/ CompressSettles
    \/ UploadSettles
    \/ CreateSettles
    \/ UploadReturns

UploadSpec == UploadSpecInit /\ [][UploadNext]_vars

\* the EnterInfo screen
EntrySpecInit ==
    EntryInit /\ AuthIdle /\ AppIdle /\ PeopleIdle /\ UploadIdle /\ OldIdle

EntryNext ==
    \/ MountEntry
    \/ UnmountEntry
    \/ \E name \in RequiredFields : \E value \in EntryInputs(name) :
          handleInputChange(name, value)
    \/ AutoSaveFires
    \/ ManualSave
    \/ RequestSubmission
    \/ CancelSubmission
    \/ handleConfirmSubmission
    \/ EntryCreateSettles
    \/ ResetPromptFires
    \/ RequestReset
    \/ CancelReset
    \/ resetForm
    \/ Tick

EntrySpec == EntrySpecInit /\ [][EntryNext]_vars

\* parseResponse
ParseSpecInit == ParseInit /\ FormIdle /\ ApiIdle /\ CalcIdle /\ AuthIdle /\ MoreIdle

ParseNext ==
    \/ ParseRun
    \/ ParseAnother

ParseSpec == ParseSpecInit /\ [][ParseNext]_vars

(***************************************************************************)
(* Properties of the Form component (FormSpec)                             *)
(***************************************************************************)
IsBlank(s) == \A k \in 1..Len(s) : s[k] = " "

ValueOf(i) == Get(formData, fields[i].name, <<>>)

JustSubmitted == submitOutcome # "none"

\* C1: when the form is submitted, every required field whose value is empty
\* or only whitespace has an error under its name and onSubmit is not called;
\* onSubmit is called only when no error was computed.
C1_RequiredBlankBlocksSubmit ==
    JustSubmitted =>
        /\ \A i \in 1..Len(fields) :
              (Get(fields[i], "required", FALSE) /\ IsBlank(ValueOf(i)))
                  => (ShowsError(errors, fields[i].name) /\ submitOutcome = "blocked")
        /\ submitOutcome = "invoked" => (DOMAIN errors = {} /\ onSubmitArg = formData)

C1_Witness ==
    /\ submitOutcome = "blocked"
    /\ \E i \in 1..Len(fields) :
          /\ Get(fields[i], "required", FALSE)
          /\ ValueOf(i) = <<" ">>
          /\ ShowsError(errors, fields[i].name)

\* an optional minus sign followed by decimal digits and nothing else
IsInteger(s) ==
    LET body == IF s # <<>> /\ s[1] = "-" THEN Tail(s) ELSE s
    IN  body # <<>> /\ \A k \in 1..Len(body) : IsDigit(body[k])

IntegerValue(s) ==
    IF s[1] = "-" THEN 0 - DigitsValue(Tail(s), 0) ELSE DigitsValue(s, 0)

\* C2: after a submit, a number field with bounds min and max that holds an
\* entered value has an error exactly when the value is not a number or is
\* below min or above max.
C2_NumberFieldValidated ==
    JustSubmitted =>
        \A i \in 1..Len(fields) :
            (fields[i].type = "number" /\ Has(fields[i], "min")
                /\ Has(fields[i], "max") /\ ValueOf(i) # <<>>)
            => (ShowsError(errors, fields[i].name)
                  <=> \/ ~IsInteger(ValueOf(i))
                      \/ IntegerValue(ValueOf(i)) < fields[i].min
                      \/ IntegerValue(ValueOf(i)) > fields[i].max)

IsConfirmation(field) ==
    Get(field, "needsConfirmation", FALSE) /\ Has(field, "confirmAgainst")

\* C3: after a submit, a confirmation field has an error whenever its value
\* differs from the value of the field it confirms, and does not carry the
\* confirmation message when the two values are equal (a missing value
\* counts as the empty string).
C3_ConfirmationChecked ==
    JustSubmitted =>
        \A i \in 1..Len(fields) :
            IsConfirmation(fields[i]) =>
                LET other == Get(formData, fields[i].confirmAgainst, <<>>)
                IN  /\ ValueOf(i) # other => ShowsError(errors, fields[i].name)
                    /\ ValueOf(i) = other =>
                          Get(errors, fields[i].name, "") # ConfirmMessage(fields[i])

C3_Witness ==
    /\ submitOutcome = "blocked"
    /\ \E i \in 1..Len(fields) :
          /\ IsConfirmation(fields[i])
          /\ ValueOf(i) = <<>>
          /\ Get(formData, fields[i].confirmAgainst, <<>>) = <<"p">>
          /\ Get(errors, fields[i].name, "") = "Passwords must match"
          /\ DOMAIN errors = {fields[i].name}

(***************************************************************************)
(* Properties of the HTTP request wrapper (Spec)                           *)
(***************************************************************************)
HasStatus(answer, status) == answer.kind = "response" /\ answer.status = status

InCall == pc # "idle"

NonDecreasing(s) == \A k \in 2..Len(s) : s[k - 1] <= s[k]

\* C4: with the default configuration, a call whose transport answers 503,
\* 503 and then 200 resolves after three fetch calls, having waited two
\* delays that do not decrease and do not exceed maxDelay.
C4_RetriesThrough503 ==
    (/\ pc = "done"
     /\ fetchCount >= 1
     /\ options = EmptyRecord
     /\ HasStatus(transport[1], 503)
     /\ HasStatus(transport[2], 503)
     /\ HasStatus(transport[3], 200))
    => /\ callResult.state = "resolved"
       /\ fetchCount = 3
       /\ Len(delays) = 2
       /\ NonDecreasing(delays)
       /\ \A k \in 1..Len(delays) : delays[k] <= DEFAULT_RETRY_CONFIG.maxDelay

\* a 4xx status other than 429
IsClientError(answer) ==
    /\ answer.kind = "response"
    /\ answer.status >= 400 /\ answer.status < 500 /\ answer.status # 429

\* C5: while the client is online, a call whose first fetch is answered with
\* a 4xx status other than 429 issues no second fetch, waits no delay and
\* rejects with the structured error of that response.
C5_ClientErrorNotRetried ==
    (InCall /\ fetchCount >= 1 /\ IsClientError(transport[1]) /\ ~offlineAtCatch)
    => /\ fetchCount = 1
       /\ delays = <<>>
       /\ pc # "delaying"
       /\ pc = "done" =>
             /\ callResult.state = "rejected"
             /\ Get(callResult.error, "errorCode", "")
                    = "HTTP_" \o ToString(transport[1].status)

C5_Witness ==
    /\ pc = "done"
    /\ fetchCount = 1
    /\ options = EmptyRecord
    /\ HasStatus(transport[1], 404)
    /\ ~offlineAtCatch
    /\ callResult.state = "rejected"
    /\ callResult.error.errorCode = "HTTP_404"

\* C6: a call made with retries enabled never ends on an attempt that timed
\* out while the attempt count is below maxRetries: the timed-out request is
\* attempted again.
C6_TimeoutRetried ==
    (/\ pc = "done"
     /\ fetchCount >= 1
     /\ RequestConfig(options).retries > 0
     /\ transport[fetchCount].kind = "silence")
    => fetchCount >= DEFAULT_RETRY_CONFIG.maxRetries

\* the number of the fetch an error object came from
StampOf(error) == IF Has(error, "timestamp") THEN error.timestamp ELSE error.id

C9_PerCallOptionsApply ==
    (InCall /\ Has(options, "retries") /\ options.retries > 0)
    => /\ fetchCount <= options.retries
       /\ (Has(options, "retryDelay") /\ delays # <<>>)
             => delays[1] = options.retryDelay
       /\ (pc = "done" /\ fetchCount >= 1 /\ transport[fetchCount].kind = "failure")
             => fetchCount = options.retries

RejectedOffline ==
    /\ callResult.state = "rejected"
    /\ callResult.error.message = "No internet connection"

\* C10: a call made while networkStatus.isOnline is false rejects with "No
\* internet connection" without issuing a fetch, and networkStatus.isOnline
\* turns from false to true only when the online listener runs.
C10_OfflineRejectsWithoutFetch ==
    [][/\ (pc = "idle" /\ pc' # "idle" /\ ~networkStatus.isOnline)
            => (pc' = "done" /\ fetchCount' = 0 /\ RejectedOffline')
       /\ (~networkStatus.isOnline /\ networkStatus'.isOnline)
            => (/\ eventQueue # <<>>
                /\ Head(eventQueue) = "online"
                /\ eventQueue' = Tail(eventQueue))]_vars

C10_Witness ==
    /\ pc = "done"
    /\ fetchCount = 0
    /\ RejectedOffline
    /\ ~networkStatus.isOnline
    /\ navigatorOnLine
    /\ eventQueue = <<"online">>

(***************************************************************************)
(* Properties of calculateRetryDelay (CalcSpec)                            *)
(***************************************************************************)
\* C8: the delay for attempt k is baseDelay * backoffMultiplier^(k-1) capped
\* at maxDelay; with the defaults the delays do not decrease with k and
\* never exceed maxDelay.
C8_BackoffDelay ==
    /\ \A k \in 1..Len(calcDelays) :
          LET raw == calcConfig.baseDelay * calcConfig.backoffMultiplier ^ (k - 1)
          IN  calcDelays[k] = IF raw > calcConfig.maxDelay
                              THEN calcConfig.maxDelay ELSE raw
    /\ calcConfig = DEFAULT_RETRY_CONFIG =>
          /\ NonDecreasing(calcDelays)
          /\ \A k \in 1..Len(calcDelays) : calcDelays[k] <= 10000

C8_Witness ==
    /\ calcConfig = DEFAULT_RETRY_CONFIG
    /\ Len(calcDelays) >= 5
    /\ calcDelays[4] = 8000
    /\ calcDelays[5] = 10000

(***************************************************************************)
(* Properties of the network check (Spec)                                  *)
(***************************************************************************)
\* C11 as stated: no fetch, the first one or a retry, is ever issued while
\* networkStatus.isOnline is false.
C11_NoFetchWhileOffline == offlineFetches = {}

\* C11: networkStatus is read once, when apiClient starts, so the first fetch
\* of a call is never issued while networkStatus.isOnline is false; retries
\* are issued without reading it again.
C11_FirstFetchNeverOffline == 1 \notin offlineFetches

C11_Witness ==
    /\ pc = "fetching"
    /\ ~networkStatus.isOnline
    /\ fetchCount = 2
    /\ offlineFetches = {2}

(***************************************************************************)
(* Properties of the convenience wrappers (WrapperSpec)                    *)
(***************************************************************************)
IsUpload(req) == Has(req, "body") /\ req.body.kind = "FormData"

\* C12: the request of apiUpload carries a FormData body with the file under
\* 'file' and not the default 'Content-Type: application/json'; the requests
\* of apiGet, apiPost, apiPut and apiDelete carry that header.
C12_UploadWithoutJsonContentType ==
    request # NoRequest =>
        IF IsUpload(request)
        THEN /\ \E e \in 1..Len(request.body.entries) :
                    /\ request.body.entries[e].name = "file"
                    /\ request.body.entries[e].value \in UploadFiles
             /\ Get(request.headers, "Content-Type", "") # "application/json"
        ELSE Get(request.headers, "Content-Type", "") = "application/json"

(***************************************************************************)
(* Properties of parseResponse (ParseSpec)                                 *)
(***************************************************************************)
\* the code property of a JSON error body, "" when the body gives none
BodyCode(response) ==
    IF IsJsonType(response) /\ BodyOf(response).kind = "json"
    THEN Get(BodyOf(response).value, "code", "")
    ELSE ""

\* C13: for every non-2xx response, whatever its body, parseResponse fails
\* with a structured error: success false, no data, an errors list of at
\* least one string, and errorCode 'HTTP_<status>' when the body gives no
\* code.
C13_NonOkGivesStructuredError ==
    (parseOutput.parsed /\ ~ResponseOk(parseInput)) =>
        /\ parseOutput.thrown
        /\ Has(parseOutput.error, "success")
        /\ parseOutput.error.success = FALSE
        /\ ~Has(parseOutput.error, "data")
        /\ Len(parseOutput.error.errors) >= 1
        /\ BodyCode(parseInput) = "" =>
                parseOutput.error.errorCode = "HTTP_" \o ToString(parseInput.status)

(***************************************************************************)
(* Properties of the AuthProvider (AuthSpec)                               *)
(***************************************************************************)
Returned(op) == authPc = "idle" /\ authReturn.op = op

\* C14: after logout() completes the user is null and isLoading is false,
\* whether the logout API call succeeded or gave an error.
C14_LogoutClearsUser ==
    Returned("logout") => (user = Null /\ isLoading = FALSE)

C14_Witness ==
    /\ Returned("logout")
    /\ authReturn.before # Null
    /\ authReturn.result.error # Null
    /\ user = Null
    /\ isLoading = FALSE

\* C15: whenever login or register returns true, the user is non-null and
\* the error is null, also when the body says success without a user object.
C15_TrueMeansAuthenticated ==
    ((Returned("login") \/ Returned("register")) /\ authReturn.value = TRUE)
        => (user # Null /\ authError = Null)

\* the call failed: a transport error, null data, or success false
AuthCallFailed(result) ==
    \/ Truthy(result.error)
    \/ result.data = Null
    \/ ~Get(result.data[1], "success", FALSE)

\* the text the claim expects after a failure
ExpectedError(result, generic) ==
    IF Truthy(result.error) THEN result.error[1]
    ELSE IF result.data = Null THEN generic
    ELSE LET data == result.data[1]
         IN  IF Has(data, "errors") /\ data.errors # <<>>
             THEN join(data.errors, ", ")
             ELSE IF Get(data, "message", "") # "" THEN data.message ELSE generic

C17_CheckAuthNeverStoresError ==
    /\ (authPc = "checkAuth" \/ authReturn.op = "checkAuth")
          => (apiToken = Null /\ authReturn.op \in {"none", "checkAuth"})
    /\ Returned("checkAuth") =>
          /\ authReturn.before = Null
          /\ isLoading = FALSE
          /\ authError = Null
          /\ LET result == authReturn.result
             IN  IF /\ result.data # Null
                    /\ ~Truthy(result.error)
                    /\ Get(result.data[1], "success", FALSE)
                    /\ Has(result.data[1], "user")
                 THEN user = Some(result.data[1].user)
                 ELSE user = Null

C17_Witness ==
    /\ Returned("checkAuth")
    /\ authReturn.result.error = Some("Unauthorized")
    /\ user = Null
    /\ authError = Null
    /\ isLoading = FALSE

(***************************************************************************)
(* Properties of the form's change handler (FormSpec)                      *)
(***************************************************************************)
\* C18: when onSubmit is called, every field of the payload equals the value
\* entered last, and the photo equals the data URI of the image selected
\* last, also when reads are pending or finish out of order.
C18_PayloadEqualsEntered ==
    submitOutcome = "invoked" =>
        \A n \in DOMAIN entered : Get(onSubmitArg, n, <<>>) = entered[n]

\* C19: selecting a file that is not an image leaves the stored values
\* unchanged and leaves the field with the error 'Please select a valid
\* image file', whatever the state before, also when the field already
\* shows an error.
C19_NonImageLeavesError ==
    [][\A i \in 1..Len(fields) : \A file \in Files :
          (~IsImage(file) /\ SelectFile(i, file)) =>
              /\ formData' = formData
              /\ Has(errors', fields[i].name)
              /\ errors'[fields[i].name] = NotAnImageMessage]_vars

\* the user edits field i: types, picks a file, or empties the selection
EditOf(i) ==
    /\ submitOutcome' = "none"
    /\ Len(readers') >= Len(readers)
    /\ \/ /\ Has(formData', fields[i].name)
          /\ formData'[fields[i].name] \in InputsFor(fields[i])
          /\ ChangeInput(i, formData'[fields[i].name])
       \/ \E f \in Files : SelectFile(i, f)
       \/ ClearFile(i)

\* C20: editing a field that shows an error clears that field's error and
\* leaves the errors of all other fields as they were; an edit never creates
\* an error for a different field.
C20_EditClearsOwnErrorOnly ==
    [][\A i \in 1..Len(fields) :
          EditOf(i) =>
              /\ ShowsError(errors, fields[i].name)
                    => ~ShowsError(errors', fields[i].name)
              /\ \A n \in FieldNames(fields) \ {fields[i].name} :
                    /\ Has(errors', n) = Has(errors, n)
                    /\ Get(errors', n, "") = Get(errors, n, "")]_vars

C20_Witness ==
    /\ submitOutcome = "none"
    /\ \E n \in DOMAIN errors :
          /\ errors[n] = ""
          /\ \E m \in DOMAIN errors \ {n} : ShowsError(errors, m)

(***************************************************************************)
(* Properties of the auth API client's token (AuthSpec)                    *)
(***************************************************************************)
\* the response of login or register has success true and a token
GivesToken(result) ==
    /\ result.data # Null
    /\ Get(result.data[1], "success", FALSE)
    /\ Get(result.data[1], "token", "") # ""

\* C27: the in-memory token becomes the response's token only when a login
\* or register response has success true and a token, a failed login or
\* register leaves the token as it was, logout sets it to null whatever the
\* answer, and a request issued while the token is null carries no
\* Authorization header.
C27_TokenFollowsAuth ==
    /\ \A op \in {"login", "register"} :
          Returned(op) =>
              apiToken = IF GivesToken(authReturn.result)
                         THEN Some(authReturn.result.data[1].token)
                         ELSE authReturn.tokenBefore
    /\ Returned("logout") => apiToken = Null
    /\ Returned("checkAuth") => apiToken = authReturn.tokenBefore
    /\ (authPc \in {"login", "register", "logout"} /\ apiToken = Null)
          => ~Has(authHeaders, "Authorization")

C27_Witness ==
    /\ Returned("logout")
    /\ authReturn.tokenBefore = Some("token-1")
    /\ authReturn.result.error # Null
    /\ apiToken = Null

(***************************************************************************)
(* Properties of the loading flag (AuthLiveSpec)                           *)
(***************************************************************************)
\* C28: every login, register, logout and checkAuth has isLoading true from
\* its start until its API call settles and ends with isLoading false on
\* every path, so isLoading never stays true.
C28_LoadingEnds ==
    /\ [](authPc \in {"checkAuth", "login", "register", "logout"} => isLoading)
    /\ [](authPc = "idle" => ~isLoading)
    /\ (isLoading ~> ~isLoading)

C28_Witness ==
    /\ Returned("login")
    /\ authReturn.value = TRUE
    /\ ~Has(authReturn.result.data[1], "user")
    /\ ~isLoading

(***************************************************************************)
(* Properties of the errors shown after a submit (FormSpec)                *)
(***************************************************************************)
\* C30: the errors shown after a submit are exactly those validateForm
\* computed in that submit; earlier errors are replaced, so a file-type
\* rejection shown before does not block the submit and is not shown after.
C30_SubmitReplacesErrors ==
    JustSubmitted =>
        /\ errors = validateForm(fields, formData)
        /\ submitOutcome = "invoked" <=> DOMAIN errors = {}
        /\ \A n \in DOMAIN errors : errors[n] # NotAnImageMessage

C30_Witness ==
    /\ submitOutcome = "invoked"
    /\ rejectionBeforeSubmit
    /\ errors = EmptyRecord

(***************************************************************************)
(* Properties of the token across the two clients (SessionSpec)            *)
(***************************************************************************)
\* C22: from a login or register that gave a token until logout, every
\* request the HTTP wrapper issues carries 'Authorization: Bearer <token>'.
C22_WrapperCarriesLoginToken ==
    [][(fetchCount' > fetchCount /\ apiToken # Null) =>
          Get(request'.headers, "Authorization", "") = "Bearer " \o apiToken[1]]_vars

(***************************************************************************)
(* Properties of the screen shown (AppSpec)                                *)
(***************************************************************************)
\* C24: whenever isLoading is false the screen matches the auth state: with
\* no user signed in currentScreen is 'login' or 'register', with a user
\* signed in it is 'enter' or 'show'.
C24_ScreenMatchesAuthState ==
    ~isLoading =>
        IF user = Null
        THEN currentScreen \in {"login", "register"}
        ELSE currentScreen \in {"enter", "show"}

(***************************************************************************)
(* Properties of the people list (PeopleSpec)                              *)
(***************************************************************************)
\* C23: a person appended by handlePersonAdd after a successful create is
\* never removed from the list by the completion of a fetchPeople call that
\* was started before the append.
C23_AppendSurvivesEarlierFetch == lost = {}

(***************************************************************************)
(* Properties of createPersonWithPhoto (UploadSpec)                        *)
(***************************************************************************)
\* the file passes the claim's validation: at most 5 MB and one of the four
\* image types
AcceptablePhoto(file) ==
    /\ file.size <= 5242880
    /\ file.type \in {"image/jpeg", "image/png", "image/webp", "image/gif"}

Events(name) == {k \in 1..Len(upLog) : upLog[k].event = name}

\* C29: with a photo file the upload request is issued and completes before
\* the create-person request; a file that fails validation causes no upload
\* request; when validation, compression or upload fails no create-person
\* request is issued and the call rejects with the error.
C29_UploadBeforeCreate ==
    /\ Cardinality(Events("upload issued")) <= 1
    /\ Cardinality(Events("create issued")) <= 1
    /\ (photoFile # Null /\ ~AcceptablePhoto(photoFile[1])) =>
          /\ Events("upload issued") = {}
          /\ Events("create issued") = {}
          /\ upPc = "done"
          /\ upResult.state = "rejected"
    /\ (photoFile # Null /\ Events("create issued") # {}) =>
          \E i \in Events("upload issued") : \E j \in Events("upload settled") :
              /\ upLog[j].ok
              /\ \A k \in Events("create issued") : i < j /\ j < k
    /\ (photoFile = Null /\ upPc # "idle") =>
          (Events("upload issued") = {} /\ Events("create issued") # {})
    /\ (upPc = "done" /\ Events("create issued") = {}) =>
          upResult.state = "rejected"

C29_Witness ==
    /\ photoFile # Null
    /\ upPc = "done"
    /\ Len(upLog) = 4
    /\ upLog[3].event = "create issued"
    /\ upLog[3].photo = Some("/uploads/p1")
    /\ upResult.state = "resolved"

(***************************************************************************)
(* Properties of the EnterInfo screen (EntrySpec)                          *)
(***************************************************************************)
DayMs == 86400000

\* the stored value is a draft whose timestamp is less than 24 hours before t
FreshDraft(saved, t) ==
    /\ saved # Null
    /\ saved[1].kind = "json"
    /\ t - saved[1].value.timestamp < DayMs

\* C21: the mount restores the stored draft into the form only if its
\* timestamp is less than 24 hours before the current time; a draft of 24
\* hours or more, a missing one or an unparsable one leaves the form empty.
C21_RestoreOnlyFreshDraft ==
    mountLog # Null =>
        IF FreshDraft(mountLog[1].saved, mountLog[1].at)
        THEN entryData = mountLog[1].saved[1].value.formData
        ELSE entryData = EmptyRecord /\ autoSaveTimer = Null

\* a draft written by the running screen is found again just under a day later
C21_Witness ==
    /\ mountLog # Null
    /\ FreshDraft(mountLog[1].saved, mountLog[1].at)
    /\ mountLog[1].at - mountLog[1].saved[1].value.timestamp = DayMs - 1
    /\ entryData = [name |-> <<"A", "l">>]

\* every required field is in data and passes its validator
AllRequiredValid(data) ==
    \A n \in RequiredFields : Has(data, n) /\ validateField(n, data[n]) = ""

\* C25: createPersonWithPhoto is called only with every required field
\* present and valid; while a required field was never filled in, isFormValid
\* is false (the submit button is disabled).
C25_CreateOnlyWhenComplete ==
    /\ entryCall.state = "pending" => AllRequiredValid(entryCall.data)
    /\ (entryMounted /\ RequiredFields \ DOMAIN entryData # {}) => ~isFormValid

\* the storage key holds a draft of these values
HoldsDraftOf(saved, values) ==
    /\ saved # Null
    /\ saved[1].kind = "json"
    /\ saved[1].value.formData = values

\* C26: once the draft was discarded (successful submission, or Reset Form
\* confirmed) the storage key holds no draft of the discarded values until a
\* field is edited again.
C26_DiscardedDraftStaysGone ==
    (discarded # Null /\ DOMAIN discarded[1] # {}) =>
        ~HoldsDraftOf(autoSave, discarded[1])

====
